---------------------------- MODULE Spec2Model ----------------------------
(***************************************************************************)
(* A model of the job-search application: the heuristic posting            *)
(* validators and scorers of the three job-search libraries, the four      *)
(* POST /search route handlers and the relational store they write to.     *)
(*                                                                         *)
(* Numbers that JavaScript keeps as floating point (scores) are kept here  *)
(* in hundredths: 550 is the score 5.5, 1000 is the score 10.              *)
(* Strings whose characters the code inspects are kept as texts: a length  *)
(* and the offsets at which the phrases of a small vocabulary occur.       *)
(***************************************************************************)
EXTENDS Integers, Sequences, FiniteSets, TLC

VARIABLES
  searchTable,   \* rows of model Search
  jobTable,      \* rows of model Job
  savedJobTable, \* rows of model SavedJob
  nextId,        \* number of ids handed out so far by @default(cuid())
  served,        \* number of POST /search requests received so far
  env,           \* process.env: which of the three variables are set
  rq,            \* the POST /search request being handled and its locals
  resp,          \* the last HTTP response sent by a search route
  fn,            \* pure-function specifications: the function under test
  arg,           \* pure-function specifications: its input
  ret            \* pure-function specifications: its result

vars ==
  <<searchTable, jobTable, savedJobTable, nextId, served, env, rq, resp,
    fn, arg, ret>>

storeVars == <<searchTable, jobTable, savedJobTable, nextId>>
pureVars == <<fn, arg, ret>>

-----------------------------------------------------------------------------
(* Bounds of the model.                                                    *)

\* most vocabulary phrases one generated content text holds
MaxTerms == 5
\* most documents the search provider returns for one call
MaxResults == 2
\* most POST /search requests in one behaviour
MaxRequests == 2
\* most jobs in one generated list of jobs
MaxJobs == 3
\* most characters in one generated query
MaxQueryLen == 2
\* most /saved-jobs requests in one behaviour
MaxSavedRequests == 3

-----------------------------------------------------------------------------
(* Generic helpers.                                                        *)

Min(a, b) == IF a < b THEN a ELSE b
Max(a, b) == IF a > b THEN a ELSE b

Range(s) == {s[i] : i \in DOMAIN s}

RECURSIVE SeqSum(_)
SeqSum(s) == IF s = <<>> THEN 0 ELSE Head(s) + SeqSum(Tail(s))

\* Array.prototype.slice(0, n)
Slice(s, n) == SubSeq(s, 1, Min(n, Len(s)))

\* all sequences over S of length at most n
SeqsUpTo(S, n) == UNION {[1..k -> S] : k \in 0..n}

\* Math.ceil(a / b) for a >= 0, b > 0
CeilDiv(a, b) == (a + b - 1) \div b

\* Math.round(x): to the nearest integer, halves up.
MathRound(x) == ((x + 50) \div 100) * 100

\* Math.round(x * 10) / 10: to the nearest tenth, halves up.
RoundTenth(x) == ((x + 5) \div 10) * 10

IsInteger(x) == x % 100 = 0

-----------------------------------------------------------------------------
(* Texts.  A text is [len, at]: the string's length and, for each phrase   *)
(* of the vocabulary that occurs in the lower-cased string, the offset of  *)
(* its first occurrence.                                                   *)

\* The offset of pattern p inside vocabulary phrase w, or -1.
SubAt(p, w) ==
  IF p = w THEN 0
  ELSE CASE w = "software engineer" /\ p = "software" -> 0
         [] w = "software engineer" /\ p = "engineer" -> 9
         [] w = "/jobs/" /\ p = "job" -> 1
         [] w = "benefits" /\ p = "benefit" -> 0
         [] w = "privacy policy" /\ p = "policy" -> 8
         [] OTHER -> -1

\* String.prototype.includes on a lower-cased text
Includes(t, p) ==
  p = "" \/ \E w \in DOMAIN t.at : SubAt(p, w) >= 0

\* text.substring(0, k).includes(p)
PrefixIncludes(t, k, p) ==
  p = "" \/ \E w \in DOMAIN t.at :
              /\ SubAt(p, w) >= 0
              /\ t.at[w] + SubAt(p, w) + Len(p) <= Min(k, t.len)

\* patterns.some(p => text.includes(p))
IncludesAny(t, patterns) == \E p \in patterns : Includes(t, p)

EmptyText == [len |-> 0, at |-> <<>>]

\* Lower-cased texts of the literal titles and URLs documents carry.
LowerText(s) ==
  CASE s = "" -> EmptyText
    [] s = "Software Engineer at Acme" ->
         [len |-> 25, at |-> [w \in {"software engineer"} |-> 0]]
    [] s = "Hiring: Backend Role" ->
         [len |-> 20, at |-> [w \in {"hiring", "role"} |->
                                IF w = "hiring" THEN 0 ELSE 16]]
    [] s = "Privacy Policy" ->
         [len |-> 14, at |-> [w \in {"privacy policy"} |-> 0]]
    [] s = "Acme Team" -> [len |-> 9, at |-> <<>>]
    [] s = "https://boards.greenhouse.io/acme/jobs/1" ->
         [len |-> 40, at |-> [w \in {"/jobs/"} |-> 33]]
    [] s = "https://www.linkedin.com/jobs/view/2" ->
         [len |-> 36, at |-> [w \in {"/jobs/"} |-> 24]]
    [] s = "https://acme.com/about" -> [len |-> 22, at |-> <<>>]
    [] OTHER -> [len |-> Len(s), at |-> <<>>]

\* Position of a phrase in the vocabulary order used to lay texts out.
VocabOrder ==
  <<"duties", "skill", "apply", "salary", "benefits", "remote", "equity",
    "bonus", "pto", "401k", "competitive", "privacy policy",
    "software engineer">>

Idx(w) == CHOOSE i \in DOMAIN VocabOrder : VocabOrder[i] = w

Rank(w, S) == Cardinality({v \in S : Idx(v) < Idx(w)})

\* The text of n characters that holds the phrases of S one after the
\* other, 20 characters apart, from offset o on.
MkText(n, S, o) == [len |-> n, at |-> [w \in S |-> o + Rank(w, S) * 20]]

FitsText(n, S, o) == S = {} \/ o + Cardinality(S) * 20 <= n

Texts(lens, vocab, offsets) ==
  {MkText(n, S, o) : <<n, S, o>> \in
     {x \in lens \X {S \in SUBSET vocab : Cardinality(S) <= MaxTerms} \X offsets :
        /\ FitsText(x[1], x[2], x[3])
        /\ (x[2] = {} => x[3] = 0)}}

-----------------------------------------------------------------------------
(* Raw documents of the search provider: [url, title, text, publishedDate]. *)
(* url and title are literal strings ("" when the provider gave none), text *)
(* is the lower-cased content as a text, publishedDate is [has, daysOld].   *)

NoDate == [has |-> FALSE, daysOld |-> 0]
Published(d) == [has |-> TRUE, daysOld |-> d]

\* String.prototype.toLowerCase on the literal queries and locations
toLowerCase(q) ==
  CASE q = "Software Engineer" -> "software engineer"
    [] q = "Software Engineer in Remote" -> "software engineer in remote"
    [] q = "Remote" -> "remote"
    [] q = "HTTPS://JOBS.LEVER.CO/ACME/1" -> "https://jobs.lever.co/acme/1"
    [] q = "Dev" -> "dev"
    [] q = "DEV" -> "dev"
    [] q = "Acme" -> "acme"
    [] q = "Dev-Ops" -> "dev-ops"
    [] q = "Ops-Acme" -> "ops-acme"
    [] q = "Austin" -> "austin"
    [] q = "Hybrid" -> "hybrid"
    [] q = "Remote / Hybrid" -> "remote / hybrid"
    [] q = "We support Remote Work" -> "we support remote work"
    [] OTHER -> q

\* query.toLowerCase().split(' ')
QueryWords(q) ==
  CASE q = "Software Engineer" -> <<"software", "engineer">>
    [] q = "" -> <<"">>
    [] q = "   " -> <<"", "", "", "">>
    [] OTHER -> <<toLowerCase(q)>>

-----------------------------------------------------------------------------
(* Posting validators.                                                     *)

MinValidLen == 500
MinEnhancedLen == 300
MinBasicLen == 200

\* criteria.filter(c => c).length
CountTrue(criteria) ==
  Cardinality({i \in DOMAIN criteria : criteria[i]})

\* job-search.ts: six criteria, at least three must hold
isValidJobPosting(result) ==
  LET title == LowerText(result.title)
      content == result.text
      url == LowerText(result.url)
      jobUrlPatterns ==
        {"/jobs/", "/careers/", "/job/", "/career/", "/position/",
         "/opening/", "/vacancy/", "job-", "career-", "-job", "-career",
         "jobid=", "job_id=", "requisition", "posting"}
      hasJobUrl == IncludesAny(url, jobUrlPatterns)
      titleJobIndicators ==
        {"hiring", "job", "position", "role", "opening",
         "opportunity", "career", "vacancy", "wanted", "seeking"}
      hasTitleIndicator == IncludesAny(title, titleJobIndicators)
      requiredSections ==
        <<{"responsibilit", "duties", "role", "what you", "you will"},
          {"requirement", "qualification", "skill", "experience", "must have"},
          {"benefit", "offer", "perks", "salary", "compensation"}>>
      sectionsFound ==
        Cardinality({i \in DOMAIN requiredSections :
                       IncludesAny(content, requiredSections[i])})
      excludePatterns ==
        {"company overview", "about us page", "store location",
         "press release", "news article", "blog post", "case study",
         "product page", "service page", "contact us", "privacy policy",
         "terms of service", "cookie policy"}
      isExcluded ==
        \E pattern \in excludePatterns :
          Includes(title, pattern) \/ PrefixIncludes(content, 500, pattern)
      hasSubstantialContent == content.len > MinValidLen
      hasApplyInstructions ==
        Includes(content, "apply") \/ Includes(content, "application")
      criteria ==
        <<hasJobUrl, hasTitleIndicator, sectionsFound >= 2, ~isExcluded,
          hasSubstantialContent, hasApplyInstructions>>
  IN CountTrue(criteria) >= 3

\* enhanced-job-search.ts enhancedJobValidation: the weighted sum of its
\* signals
validationScore(result, query, preferences) ==
  LET title == LowerText(result.title)
      content == result.text
      url == LowerText(result.url)
      jobUrlPatterns ==
        {"/jobs/", "/careers/", "/job/", "/career/", "/position/",
         "/opening/", "/vacancy/", "job-", "career-", "-job",
         "jobid=", "job_id=", "requisition", "posting", "/apply"}
      hasJobUrl == IncludesAny(url, jobUrlPatterns)
      requiredSections ==
        <<{"responsibilit", "duties", "what you", "you will"},
          {"requirement", "qualification", "skill", "experience"},
          {"apply", "application", "submit", "send resume"}>>
      sectionsFound ==
        Cardinality({i \in DOMAIN requiredSections :
                       IncludesAny(content, requiredSections[i])})
      queryWords == QueryWords(query)
      titleRelevance ==
        Cardinality({i \in DOMAIN queryWords :
                       Len(queryWords[i]) > 2 /\ Includes(title, queryWords[i])})
      contentRelevance ==
        Cardinality({i \in DOMAIN queryWords :
                       Len(queryWords[i]) > 2 /\ Includes(content, queryWords[i])})
      excludePatterns ==
        {"company overview", "about us", "privacy policy",
         "terms of service", "news article", "press release"}
      isExcluded ==
        \E pattern \in excludePatterns :
          Includes(title, pattern) \/ PrefixIncludes(content, 1000, pattern)
  IN SeqSum(<<IF hasJobUrl THEN 2 ELSE 0,
              sectionsFound * 1,
              IF titleRelevance > 0 THEN 2 ELSE 0,
              IF contentRelevance > 1 THEN 1 ELSE 0,
              IF ~isExcluded THEN 1 ELSE -5,
              IF content.len > 1000 THEN 1 ELSE 0>>)

\* a plausible slip: the basic validation line is missing
enhancedJobValidationUngated(result, query, preferences) ==
  validationScore(result, query, preferences) >= 4

\* enhanced-job-search.ts enhancedJobValidation: a length gate, then the
\* weighted sum must reach 4
enhancedJobValidation(result, query, preferences) ==
  IF \/ LowerText(result.title).len = 0
     \/ result.text.len = 0
     \/ result.text.len < MinEnhancedLen
  THEN FALSE
  ELSE validationScore(result, query, preferences) >= 4

\* the simplified library: a length gate, then one job indicator
isBasicJobPosting(result) ==
  LET title == LowerText(result.title)
      content == result.text
      url == LowerText(result.url)
      jobIndicators ==
        {"job", "career", "position", "role", "hiring",
         "apply", "opportunity", "opening", "vacancy"}
      hasJobIndicator ==
        \E indicator \in jobIndicators :
          \/ Includes(title, indicator)
          \/ Includes(url, indicator)
          \/ PrefixIncludes(content, 500, indicator)
  IN IF title.len = 0 \/ content.len = 0 \/ content.len < MinBasicLen
     THEN FALSE
     ELSE hasJobIndicator

-----------------------------------------------------------------------------
(* Replies of the text-generation provider, and JavaScript's number        *)
(* parsing.  A reply is [threw, content]: the call rejected, or resolved   *)
(* with message.content, a sequence of characters (<<>> for null or "").   *)
(* A parsed number is [ok, val]: ok = FALSE is NaN, val is in hundredths.  *)

NaN == [ok |-> FALSE, val |-> 0]
Num(v) == [ok |-> TRUE, val |-> v]

Threw == [threw |-> TRUE, content |-> <<>>]
Said(chars) == [threw |-> FALSE, content |-> chars]

IsDigit(c) == c \in {"0", "1", "2", "3", "4", "5", "6", "7", "8", "9"}

DigitVal(c) ==
  CASE c = "0" -> 0 [] c = "1" -> 1 [] c = "2" -> 2 [] c = "3" -> 3
    [] c = "4" -> 4 [] c = "5" -> 5 [] c = "6" -> 6 [] c = "7" -> 7
    [] c = "8" -> 8 [] c = "9" -> 9

IsSpace(c) == c \in {" ", "\n", "\t"}

RECURSIVE TrimStart(_)
TrimStart(s) ==
  IF s # <<>> /\ IsSpace(Head(s)) THEN TrimStart(Tail(s)) ELSE s

RECURSIVE TrimEnd(_)
TrimEnd(s) ==
  IF s # <<>> /\ IsSpace(s[Len(s)]) THEN TrimEnd(SubSeq(s, 1, Len(s) - 1)) ELSE s

\* String.prototype.trim
Trim(s) == TrimEnd(TrimStart(s))

\* length of the longest prefix of decimal digits
RECURSIVE DigitRun(_)
DigitRun(s) ==
  IF s = <<>> \/ ~IsDigit(Head(s)) THEN 0 ELSE 1 + DigitRun(Tail(s))

\* value of a sequence of decimal digits
RECURSIVE DigitsValue(_)
DigitsValue(s) ==
  IF s = <<>> THEN 0
  ELSE DigitsValue(SubSeq(s, 1, Len(s) - 1)) * 10 + DigitVal(s[Len(s)])

\* parseInt(s): leading white space, a sign, then decimal digits
parseInt(s) ==
  LET t == TrimStart(s)
      signed == t # <<>> /\ Head(t) \in {"+", "-"}
      sign == IF t # <<>> /\ Head(t) = "-" THEN -1 ELSE 1
      u == IF signed THEN Tail(t) ELSE t
      n == DigitRun(u)
  IN IF n = 0 THEN NaN
     ELSE Num(sign * DigitsValue(SubSeq(u, 1, n)) * 100)

\* parseFloat(s): leading white space, a sign, digits, a fraction (the
\* replies of the model carry at most two fraction digits; no exponent)
parseFloat(s) ==
  LET t == TrimStart(s)
      signed == t # <<>> /\ Head(t) \in {"+", "-"}
      sign == IF t # <<>> /\ Head(t) = "-" THEN -1 ELSE 1
      u == IF signed THEN Tail(t) ELSE t
      n == DigitRun(u)
      rest == SubSeq(u, n + 1, Len(u))
      f == IF rest # <<>> /\ Head(rest) = "." THEN DigitRun(Tail(rest)) ELSE 0
      frac == IF f = 0 THEN <<>> ELSE SubSeq(rest, 2, 1 + Min(f, 2))
      hundredths ==
        IF Len(frac) = 0 THEN 0
        ELSE IF Len(frac) = 1 THEN DigitVal(frac[1]) * 10
        ELSE DigitVal(frac[1]) * 10 + DigitVal(frac[2])
  IN IF n = 0 /\ f = 0 THEN NaN
     ELSE Num(sign * (DigitsValue(SubSeq(u, 1, n)) * 100 + hundredths))

\* job-search.ts getOpenAIResponse: '' for an empty prompt, a rejected call
\* or an empty reply
getOpenAIResponse(promptEmpty, reply) ==
  IF promptEmpty THEN <<>>
  ELSE IF reply.threw THEN <<>>
  ELSE reply.content

-----------------------------------------------------------------------------
(* Scorers.  Scores are in hundredths.                                     *)

\* job-search.ts calculateInitialScore
calculateInitialScore(result, query) ==
  LET title == LowerText(result.title)
      content == result.text
      queryLower == toLowerCase(query)
      qualityIndicators ==
        {"salary", "benefits", "remote", "hybrid",
         "equity", "bonus", "pto", "vacation"}
      qualityCount ==
        Cardinality({ind \in qualityIndicators : Includes(content, ind)})
      score ==
        500
        + (IF Includes(title, queryLower) THEN 200 ELSE 0)
        + (IF content.len > 2000 THEN 100 ELSE 0)
        + (IF content.len > 4000 THEN 100 ELSE 0)
        + (IF qualityCount >= 3 THEN 100 ELSE 0)
  IN Min(1000, score)

\* a plausible slip: the parsed reply is returned without the clamp
calculateJobScoreUnclamped(job, preferences, reply) ==
  LET baseScore == IF job.score = 0 THEN 500 ELSE job.score
      score == parseInt(Trim(getOpenAIResponse(FALSE, reply)))
  IN IF ~score.ok THEN baseScore ELSE score.val

\* job-search.ts calculateJobScore; reply is the provider's answer to the
\* scoring prompt; an absent job.score is 0
calculateJobScore(job, preferences, reply) ==
  LET baseScore == IF job.score = 0 THEN 500 ELSE job.score
      response == getOpenAIResponse(FALSE, reply)
      score == parseInt(Trim(response))
  IN IF ~score.ok THEN baseScore ELSE Min(1000, Max(100, score.val))

\* the recency bonus shared by calculateEnhancedScore and calculateSimpleScore
recencyBonus(result) ==
  IF result.publishedDate.has
  THEN IF result.publishedDate.daysOld <= 7 THEN 100
       ELSE IF result.publishedDate.daysOld <= 14 THEN 50 ELSE 0
  ELSE 0

\* enhanced-job-search.ts calculateEnhancedScore; strategyWeight in hundredths
calculateEnhancedScore(result, preferences, strategyWeight) ==
  LET content == result.text
      qualitySignals ==
        {"competitive salary", "benefits", "equity", "bonus",
         "health insurance", "retirement", "401k", "pto",
         "flexible", "growth opportunity", "training"}
      qualityCount ==
        Cardinality({signal \in qualitySignals : Includes(content, signal)})
      score ==
        500
        + (IF content.len > 2000 THEN 100 ELSE 0)
        + (IF content.len > 4000 THEN 100 ELSE 0)
        + Min(200, qualityCount * 50)
        + strategyWeight * 2
        + recencyBonus(result)
  IN Min(1000, Max(100, RoundTenth(score)))

\* enhanced-job-search.ts calculateAIScore
calculateAIScore(job, preferences, reply) ==
  IF reply.threw THEN job.score
  ELSE LET score == parseFloat(IF reply.content = <<>> THEN <<"5">>
                               ELSE reply.content)
       IN IF ~score.ok THEN job.score ELSE Min(1000, Max(100, score.val))

\* the simplified library's calculateSimpleScore; query = "" when omitted
calculateSimpleScore(result, preferences, content, query) ==
  LET title == LowerText(result.title)
      contentLower == content
      locationBonus ==
        IF preferences.location # ""
        THEN IF preferences.location = "Remote" /\ Includes(contentLower, "remote")
             THEN 150
             ELSE IF Includes(contentLower, toLowerCase(preferences.location))
                  THEN 150 ELSE 0
        ELSE 0
      score ==
        500
        + (IF query # "" /\ Includes(title, toLowerCase(query)) THEN 200 ELSE 0)
        + locationBonus
        + (IF content.len > 1000 THEN 50 ELSE 0)
        + (IF content.len > 2000 THEN 50 ELSE 0)
        + (IF Includes(contentLower, "benefits") THEN 50 ELSE 0)
        + (IF Includes(contentLower, "competitive") THEN 50 ELSE 0)
        + recencyBonus(result)
  IN Min(1000, Max(100, RoundTenth(score)))

-----------------------------------------------------------------------------
(* Values the variables of the search routes hold while no request is      *)
(* being handled.                                                          *)

NoResponse == [route |-> "none", status |-> 0]
IdleRequest == [pc |-> "idle"]
AllSet == [EXA_API_KEY |-> TRUE, OPENAI_API_KEY |-> TRUE, DATABASE_URL |-> TRUE]

RoutesIdle ==
  /\ searchTable = {} /\ jobTable = {} /\ savedJobTable = {}
  /\ nextId = 0 /\ served = 0
  /\ env = AllSet /\ rq = IdleRequest /\ resp = NoResponse

Pending == [done |-> FALSE, val |-> 0]
Returned(v) == [done |-> TRUE, val |-> v]

-----------------------------------------------------------------------------
(* SpecValid: the three posting validators applied to generated documents. *)

ValidatorTitles ==
  {"", "Software Engineer at Acme", "Hiring: Backend Role",
   "Privacy Policy", "Acme Team"}
ValidatorUrls ==
  {"https://boards.greenhouse.io/acme/jobs/1", "https://acme.com/about"}
ValidatorVocab ==
  {"duties", "skill", "apply", "salary", "privacy policy", "software engineer"}
ValidatorLens == {0, 150, 199, 200, 299, 300, 500, 501, 1001, 1400}

ValidatorDocs ==
  {[url |-> u, title |-> t, text |-> c, publishedDate |-> NoDate] :
     <<u, t, c>> \in ValidatorUrls \X ValidatorTitles
                     \X Texts(ValidatorLens, ValidatorVocab, {0, 600, 1200})}

ValidatorQueries == {"Software Engineer", ""}

InitValid ==
  /\ RoutesIdle
  /\ ret = Pending
  /\ \/ /\ fn = "isValidJobPosting"
        /\ arg \in {[result |-> d] : d \in ValidatorDocs}
     \/ /\ fn = "enhancedJobValidation"
        /\ arg \in {[result |-> d, query |-> q] :
                      <<d, q>> \in ValidatorDocs \X ValidatorQueries}
     \/ /\ fn = "isBasicJobPosting"
        /\ arg \in {[result |-> d] : d \in ValidatorDocs}

Apply(name, value) ==
  /\ fn = name
  /\ ~ret.done
  /\ ret' = Returned(value)
  /\ UNCHANGED <<fn, arg, storeVars, served, env, rq, resp>>

ApplyIsValidJobPosting ==
  /\ fn = "isValidJobPosting"
  /\ Apply("isValidJobPosting", isValidJobPosting(arg.result))

ApplyEnhancedJobValidation ==
  /\ fn = "enhancedJobValidation"
  /\ Apply("enhancedJobValidation",
           enhancedJobValidation(arg.result, arg.query, [location |-> ""]))

ApplyIsBasicJobPosting ==
  /\ fn = "isBasicJobPosting"
  /\ Apply("isBasicJobPosting", isBasicJobPosting(arg.result))

NextValid ==
  \/ ApplyIsValidJobPosting
  \/ ApplyEnhancedJobValidation
  \/ ApplyIsBasicJobPosting

SpecValid == InitValid /\ [][NextValid]_vars

\* C2 (as written): no validator accepts a document below its minimum
\* length: isValidJobPosting none with content length <= 500,
\* enhancedJobValidation none with length < 300, isBasicJobPosting none with
\* length < 200.
C2_NoValidatorAcceptsShort ==
  ret.done /\ ret.val =>
    /\ fn = "isValidJobPosting" => arg.result.text.len > MinValidLen
    /\ fn = "enhancedJobValidation" => arg.result.text.len >= MinEnhancedLen
    /\ fn = "isBasicJobPosting" => arg.result.text.len >= MinBasicLen

\* C2 (amended): enhancedJobValidation accepts no document with content
\* length < 300 and isBasicJobPosting none with content length < 200;
\* isValidJobPosting gives no such guarantee (length is one of six criteria).
C2_GatedValidatorsRejectShort ==
  ret.done /\ ret.val =>
    /\ fn = "enhancedJobValidation" => arg.result.text.len >= MinEnhancedLen
    /\ fn = "isBasicJobPosting" => arg.result.text.len >= MinBasicLen

\* C2 witness: a 299-character document with a job URL and the query in its
\* title has been rejected by enhancedJobValidation.
C2_Witness ==
  /\ ret.done /\ ~ret.val
  /\ fn = "enhancedJobValidation"
  /\ arg.result.text.len = 299
  /\ arg.result.url = "https://boards.greenhouse.io/acme/jobs/1"
  /\ arg.result.title = "Software Engineer at Acme"
  /\ arg.query = "Software Engineer"

-----------------------------------------------------------------------------
(* SpecScore: the five scorers applied to generated documents and replies. *)

ScoreVocab ==
  {"salary", "benefits", "remote", "equity", "bonus", "pto", "401k",
   "competitive"}
ScoreLens == {150, 1000, 1001, 2000, 2001, 4000, 4001}
ScoreTitles == {"Software Engineer at Acme", "Hiring: Backend Role"}
ScoreDates == {NoDate, Published(3), Published(10), Published(30)}
ScoreQueries == {"Software Engineer", ""}
ScoreLocations == {"", "Remote", "Austin"}
\* the weights of the three strategies and of findSimilarJobsEnhanced
StrategyWeights == {30, 40, 80}

ScoreReplies ==
  {Threw, Said(<<>>), Said(<<"8">>), Said(<<"7", ".", "5">>), Said(<<"0">>),
   Said(<<"1", "2">>), Said(<<"a", "b", "c">>), Said(<<"-", "3">>),
   Said(<<" ", "9", "\n">>), Said(<<"8", "/", "1", "0">>),
   Said(<<"9", ".", "2", "5">>)}

ScoreDocs(vocab, titles, dates) ==
  {[url |-> "https://boards.greenhouse.io/acme/jobs/1", title |-> t,
    text |-> c, publishedDate |-> p] :
     <<t, c, p>> \in titles \X Texts(ScoreLens, vocab, {0}) \X dates}

Prefs(location) == [location |-> location]

InitScore ==
  /\ RoutesIdle
  /\ ret = Pending
  /\ \/ /\ fn = "calculateInitialScore"
        /\ arg \in {[result |-> d, query |-> q] :
                      <<d, q>> \in ScoreDocs(ScoreVocab, ScoreTitles, {NoDate})
                                   \X ScoreQueries}
     \/ /\ fn = "calculateJobScore"
        /\ arg \in {[result |-> d, query |-> q, scored |-> b, reply |-> r] :
                      <<d, q, b, r>> \in
                        ScoreDocs({"salary", "benefits", "remote"}, ScoreTitles,
                                  {NoDate})
                        \X ScoreQueries \X BOOLEAN \X ScoreReplies}
     \/ /\ fn = "calculateEnhancedScore"
        /\ arg \in {[result |-> d, strategyWeight |-> w] :
                      <<d, w>> \in
                        ScoreDocs(ScoreVocab, {"Hiring: Backend Role"}, ScoreDates)
                        \X StrategyWeights}
     \/ /\ fn = "calculateAIScore"
        /\ arg \in {[result |-> d, strategyWeight |-> w, reply |-> r] :
                      <<d, w, r>> \in
                        ScoreDocs({"benefits", "equity"}, {"Hiring: Backend Role"},
                                  ScoreDates)
                        \X StrategyWeights \X ScoreReplies}
     \/ /\ fn = "calculateSimpleScore"
        /\ arg \in {[result |-> d, location |-> l, query |-> q] :
                      <<d, l, q>> \in
                        ScoreDocs({"benefits", "remote", "competitive"},
                                  ScoreTitles, ScoreDates)
                        \X ScoreLocations \X ScoreQueries}

ApplyCalculateInitialScore ==
  /\ fn = "calculateInitialScore"
  /\ Apply("calculateInitialScore",
           calculateInitialScore(arg.result, arg.query))

\* enrichJobData hands calculateJobScore a job scored by
\* calculateInitialScore; the type also allows a job without a score
ApplyCalculateJobScore ==
  /\ fn = "calculateJobScore"
  /\ Apply("calculateJobScore",
           calculateJobScore(
             [score |-> IF arg.scored
                        THEN calculateInitialScore(arg.result, arg.query)
                        ELSE 0],
             Prefs(""), arg.reply))

ApplyCalculateEnhancedScore ==
  /\ fn = "calculateEnhancedScore"
  /\ Apply("calculateEnhancedScore",
           calculateEnhancedScore(arg.result, Prefs(""), arg.strategyWeight))

\* batchEnhanceScores hands calculateAIScore a job scored by
\* calculateEnhancedScore
ApplyCalculateAIScore ==
  /\ fn = "calculateAIScore"
  /\ Apply("calculateAIScore",
           calculateAIScore(
             [score |-> calculateEnhancedScore(arg.result, Prefs(""),
                                               arg.strategyWeight)],
             Prefs(""), arg.reply))

ApplyCalculateSimpleScore ==
  /\ fn = "calculateSimpleScore"
  /\ Apply("calculateSimpleScore",
           calculateSimpleScore(arg.result, Prefs(arg.location),
                                arg.result.text, arg.query))

NextScore ==
  \/ ApplyCalculateInitialScore
  \/ ApplyCalculateJobScore
  \/ ApplyCalculateEnhancedScore
  \/ ApplyCalculateAIScore
  \/ ApplyCalculateSimpleScore

SpecScore == InitScore /\ [][NextScore]_vars

InRange(x) == 100 <= x /\ x <= 1000

-----------------------------------------------------------------------------
(* The search provider as the routes see it.  Three documents: two job     *)
(* postings every validator accepts and a page every validator rejects.    *)

Posting1 ==
  [url |-> "https://boards.greenhouse.io/acme/jobs/1",
   title |-> "Software Engineer at Acme",
   text |-> MkText(3000, {"duties", "skill", "apply", "salary", "benefits",
                          "remote"}, 0),
   publishedDate |-> Published(3)]

Posting2 ==
  [url |-> "https://www.linkedin.com/jobs/view/2",
   title |-> "Hiring: Backend Role",
   text |-> MkText(1200, {"duties", "skill", "apply"}, 0),
   publishedDate |-> Published(30)]

AboutPage ==
  [url |-> "https://acme.com/about",
   title |-> "Acme Team",
   text |-> MkText(150, {}, 0),
   publishedDate |-> NoDate]

Corpus == {Posting1, Posting2, AboutPage}

\* What one provider call does: it rejects, or resolves with at most cap
\* documents.
ExaOutcomes(cap) ==
  {[threw |-> TRUE, results |-> <<>>]}
  \cup {[threw |-> FALSE, results |-> r] :
          r \in SeqsUpTo(Corpus, Min(cap, MaxResults))}

\* a request body without the field
Undefined == "<undefined>"

\* title || fallback
OrElse(s, fallback) == IF s = "" THEN fallback ELSE s

\* the elements of s at the indices in I, from index i on
RECURSIVE KeepAt(_, _, _)
KeepAt(s, I, i) ==
  IF i > Len(s) THEN <<>>
  ELSE (IF i \in I THEN <<s[i]>> ELSE <<>>) \o KeepAt(s, I, i + 1)

\* .filter((job, index, self) => index === self.findIndex(j => j.url === job.url))
uniqueResults(s) ==
  KeepAt(s, {i \in DOMAIN s : \A j \in 1..(i - 1) : s[j].url # s[i].url}, 1)

RECURSIVE InsertByScore(_, _)
InsertByScore(sorted, x) ==
  IF sorted = <<>> THEN <<x>>
  ELSE IF Head(sorted).score >= x.score
       THEN <<Head(sorted)>> \o InsertByScore(Tail(sorted), x)
       ELSE <<x>> \o sorted

\* the order is left as it is: what a route does if it forgets to sort
Unsorted(s) == s

\* .sort((a, b) => b.score - a.score): descending by score, stable
RECURSIVE SortByScore(_)
SortByScore(s) ==
  IF s = <<>> THEN <<>>
  ELSE InsertByScore(SortByScore(SubSeq(s, 1, Len(s) - 1)), s[Len(s)])

\* job-search.ts: what one strategy of searchJobsByQuery adds to allResults.
\* A jobs entry is [url, title, company, score]; company is "" until a
\* route enriches the job.  query.toLowerCase() throws for an absent query,
\* inside the strategy's try.
strategyResults(query, out) ==
  IF out.threw THEN <<>>
  ELSE LET validResults == SelectSeq(out.results, isValidJobPosting)
       IN IF query = Undefined /\ validResults # <<>> THEN <<>>
          ELSE [i \in DOMAIN validResults |->
                  [url |-> validResults[i].url,
                   title |-> OrElse(validResults[i].title, "Untitled Job"),
                   company |-> "",
                   score |-> calculateInitialScore(validResults[i], query)]]

\* job-search.ts searchJobsByQuery, given what its two provider calls did
searchJobsByQuery(query, numResults, out1, out2) ==
  Slice(SortByScore(uniqueResults(strategyResults(query, out1)
                                  \o strategyResults(query, out2))),
        numResults)

\* job-search.ts findSimilarJobs, given what its provider call did
findSimilarJobs(jobUrl, numResults, out) == strategyResults("", out)

\* the simplified library: extractCompany(result, content) || 'Unknown Company'
extractCompany(result) ==
  IF result.title = "Software Engineer at Acme" THEN "Acme"
  ELSE "Unknown Company"

\* the simplified library: createJobResult for each result isBasicJobPosting
\* accepts
processedJobs(results, preferences, query) ==
  LET basic == SelectSeq(results, isBasicJobPosting)
  IN [i \in DOMAIN basic |->
        [url |-> basic[i].url,
         title |-> OrElse(basic[i].title, "Untitled Position"),
         company |-> extractCompany(basic[i]),
         score |-> calculateSimpleScore(basic[i], preferences,
                                        basic[i].text, query)]]

\* the simplified library: enhancedJobSearch, given the results of its one
\* provider call (a rejected call is rethrown to the route)
enhancedJobSearch(query, preferences, numResults, results) ==
  Slice(SortByScore(processedJobs(results, preferences, query)), numResults)

\* the simplified library: findSimilarJobsEnhanced, given what its provider
\* call did
findSimilarJobsEnhanced(jobUrl, preferences, numResults, out) ==
  IF out.threw THEN <<>>
  ELSE SortByScore(processedJobs(out.results, preferences, ""))

-----------------------------------------------------------------------------
(* The relational store.  A Search row is [id, query], a Job row is        *)
(* [id, url, title, company, score, searchId]; Job.url is @unique and      *)
(* Job.searchId references Search.id.                                      *)

SearchIds == {s.id : s \in searchTable}

\* no existence check at all: what the store does without @unique
neverConflicts(table, url) == FALSE

\* schema: url String @unique
urlConflicts(table, url) == \E j \in table : j.url = url

\* Whether prisma.job.create({data}) rejects against the Job rows in table:
\* the engine cannot be reached, the caller-independent failure chosen for
\* this write, the unique url, the foreign key, or score Int.
jobCreateRejects(table, data, failed) ==
  \/ ~env.DATABASE_URL
  \/ failed
  \/ urlConflicts(table, data.url)
  \/ data.searchId \notin SearchIds
  \/ ~IsInteger(data.score)

\* Whether prisma.search.create({data: {query, ...}}) rejects: query is a
\* required String.
searchCreateRejects(query, failed) ==
  \/ ~env.DATABASE_URL
  \/ failed
  \/ query = Undefined

\* jobs.map(job => prisma.job.create(...)) settled one after the other:
\* [table, nextId, saved, failed] after the writes for final[i..], where F
\* holds the indices whose write the engine fails on its own.  saved holds,
\* per job, the stored row or (id 0) the in-memory stand-in.
RECURSIVE createJobs(_, _, _, _, _, _)
createJobs(final, F, i, table, id, searchId) ==
  IF i > Len(final)
  THEN [table |-> table, nextId |-> id, saved |-> <<>>, failed |-> FALSE]
  ELSE LET data == [url |-> final[i].url, title |-> final[i].title,
                    company |-> final[i].company, score |-> final[i].score,
                    searchId |-> searchId]
           rejects == jobCreateRejects(table, data, i \in F)
           row == [id |-> id + 1, url |-> data.url, title |-> data.title,
                   company |-> data.company, score |-> data.score,
                   searchId |-> data.searchId]
           rest == IF rejects
                   THEN createJobs(final, F, i + 1, table, id, searchId)
                   ELSE createJobs(final, F, i + 1, table \cup {row}, id + 1,
                                   searchId)
       IN [table |-> rest.table, nextId |-> rest.nextId,
           saved |-> <<IF rejects THEN [row EXCEPT !.id = 0] ELSE row>>
                     \o rest.saved,
           failed |-> rejects \/ rest.failed]

-----------------------------------------------------------------------------
(* POST /search requests.  rq holds the handler's position and locals:     *)
(* jobs is the retrieval's result, allJobs the enriched list, top the      *)
(* top matches still to be expanded, similar the similar jobs still to be  *)
(* enriched, searchId the Search row's id (0: none yet, -1: 'temp-id').    *)
(* exaCalled, exaResolved, aiCalled and writeRejected record what the      *)
(* handler did, faulted whether a provider call or the database engine     *)
(* failed on its own during the request, priorSearches and priorJobs the   *)
(* store the request started from.                                         *)

Routes == {"standard", "hardened", "enhanced", "backup"}

Queries == {Undefined, "", "   ", "Software Engineer"}
Locations == {"", "Remote"}
\* numResults of the body; 0 stands for an omitted field
NumResultsInputs == {0, 1}
\* findSimilar of the body
FindSimilarInputs == {"omitted", "false"}

\* const { numResults = ..., findSimilar = ... } = body
defaultNumResults(route) ==
  CASE route = "standard" -> 20
    [] route = "hardened" -> 20
    [] route = "enhanced" -> 10
    [] route = "backup" -> 25

defaultFindSimilar(route) == route # "enhanced"

NewRequest(route, query, location, numResults, findSimilar) ==
  [pc |-> "begin", route |-> route, query |-> query, location |-> location,
   numResults |-> IF numResults = 0 THEN defaultNumResults(route)
                  ELSE numResults,
   findSimilar |-> IF findSimilar = "omitted" THEN defaultFindSimilar(route)
                   ELSE findSimilar = "true",
   jobs |-> <<>>, allJobs |-> <<>>, top |-> <<>>, similar |-> <<>>,
   searchId |-> 0,
   exaCalled |-> FALSE, exaResolved |-> FALSE, aiCalled |-> FALSE,
   writeRejected |-> FALSE, faulted |-> FALSE,
   priorSearches |-> searchTable, priorJobs |-> jobTable]

\* NextResponse.json(...): the handler returns.  hasJobs tells whether the
\* body has a jobs field.
Respond(r, status, hasJobs, jobs) ==
  /\ resp' = [route |-> r.route, status |-> status, hasJobs |-> hasJobs,
              jobs |-> jobs, searchId |-> r.searchId, rq |-> r]
  /\ rq' = IdleRequest

\* the three variables the hardened and enhanced routes require
missingVars ==
  {v \in {"EXA_API_KEY", "OPENAI_API_KEY", "DATABASE_URL"} : ~env[v]}

\* !body.query || body.query.trim().length === 0
queryIsBlank(query) == query \in {Undefined, "", "   "}

\* A request arrives at a route.  The handler's first steps: the check of
\* the environment and of the query, where the route has them.
Receive(route, query, location, numResults, findSimilar, checks, first) ==
  /\ rq.pc = "idle"
  /\ served < MaxRequests
  /\ served' = served + 1
  /\ LET r == NewRequest(route, query, location, numResults, findSimilar)
     IN IF checks /\ missingVars # {}
        THEN Respond(r, 500, FALSE, <<>>)
        ELSE IF checks /\ queryIsBlank(query)
        THEN Respond(r, 400, FALSE, <<>>)
        ELSE /\ rq' = [r EXCEPT !.pc = first]
             /\ resp' = NoResponse
  /\ UNCHANGED <<storeVars, env, pureVars>>

-----------------------------------------------------------------------------
(* Steps shared by the handlers that use job-search.ts (the standard route *)
(* and its hardened version).                                              *)

\* what the text-generation provider answers to the scoring prompt in the
\* route specification
RouteReplies == {Said(<<"0">>), Said(<<"1", "2">>)}

\* What the seven provider calls of one enrichJobData do: the company the
\* extraction gave ("" when it failed) and the reply to the scoring prompt.
\* The provider is down for all seven or up for all seven.  Without
\* OPENAI_API_KEY getOpenAIClient throws and every call fails.
AiOutcomes ==
  {[company |-> "", score |-> Threw]}
  \cup (IF env.OPENAI_API_KEY
        THEN {[company |-> "Acme", score |-> s] : s \in RouteReplies}
        ELSE {})

\* What one provider call of a route does.  Without EXA_API_KEY getExaClient
\* throws and no call is made.
ExaCall(cap) ==
  IF env.EXA_API_KEY THEN ExaOutcomes(cap)
  ELSE {[threw |-> TRUE, results |-> <<>>]}

\* job-search.ts enrichJobData
enrichJobData(job, preferences, ai) ==
  [job EXCEPT !.company = ai.company,
              !.score = calculateJobScore(job, preferences, ai.score)]

\* enrichedJobs.filter(job => job.score >= 8).slice(0, 3)
topJobs(enrichedJobs) ==
  Slice(SelectSeq(enrichedJobs, LAMBDA job : job.score >= 800), 3)

HasUrl(jobs, url) == \E i \in DOMAIN jobs : jobs[i].url = url

\* part_003: the search query the hardened route builds
buildSearchQuery(query, location) ==
  IF location # "" THEN query \o " in " \o location ELSE query

\* const jobs = await searchJobsByQuery(searchQuery, numResults)
SearchJobs(route, searchQuery) ==
  /\ rq.pc = "retrieve" /\ rq.route = route
  /\ \E out1, out2 \in ExaCall(CeilDiv(rq.numResults, 2)) :
       rq' = [rq EXCEPT
                !.jobs = searchJobsByQuery(searchQuery, rq.numResults,
                                           out1, out2),
                !.exaCalled = env.EXA_API_KEY,
                !.exaResolved = ~out1.threw \/ ~out2.threw,
                !.faulted = out1.threw \/ out2.threw,
                !.pc = "createSearch"]
  /\ UNCHANGED <<storeVars, served, env, resp, pureVars>>

\* const search = await prisma.search.create(...); a rejection ends the
\* request with status 500 in both routes
CreateSearch(route) ==
  /\ rq.pc = "createSearch" /\ rq.route = route
  /\ \E failed \in BOOLEAN :
       IF searchCreateRejects(rq.query, failed)
       THEN /\ Respond([rq EXCEPT !.faulted = TRUE], 500, FALSE, <<>>)
            /\ UNCHANGED storeVars
       ELSE /\ searchTable' =
                 searchTable \cup {[id |-> nextId + 1, query |-> rq.query]}
            /\ nextId' = nextId + 1
            /\ rq' = [rq EXCEPT !.searchId = nextId + 1,
                                !.pc = IF rq.jobs = <<>> THEN "save"
                                       ELSE "enrich"]
            /\ UNCHANGED <<jobTable, savedJobTable, resp>>
  /\ UNCHANGED <<served, env, pureVars>>

\* one turn of the loop over jobs: enrichedJobs.push(await enrichJobData(..));
\* after the last one, topJobs is taken when findSimilar is set
EnrichJob(route) ==
  /\ rq.pc = "enrich" /\ rq.route = route
  /\ \E ai \in AiOutcomes :
       LET enrichedJobs ==
             Append(rq.allJobs,
                    enrichJobData(rq.jobs[Len(rq.allJobs) + 1],
                                  Prefs(rq.location), ai))
           done == Len(enrichedJobs) = Len(rq.jobs)
           top == IF done /\ rq.findSimilar THEN topJobs(enrichedJobs)
                  ELSE <<>>
       IN rq' = [rq EXCEPT
                   !.allJobs = enrichedJobs,
                   !.aiCalled = env.OPENAI_API_KEY,
                   !.top = top,
                   !.pc = IF ~done THEN "enrich"
                          ELSE IF top # <<>> THEN "similar" ELSE "save"]
  /\ UNCHANGED <<storeVars, served, env, resp, pureVars>>

\* findSimilarJobs(job.url, 3) for one of the top jobs; the results of all
\* calls are flattened in the order of topJobs
FindSimilar(route) ==
  /\ rq.pc = "similar" /\ rq.route = route
  /\ \E out \in ExaCall(3) :
       LET similarJobs ==
             rq.similar \o findSimilarJobs(Head(rq.top).url, 3, out)
           rest == Tail(rq.top)
       IN rq' = [rq EXCEPT
                   !.similar = similarJobs,
                   !.top = rest,
                   !.exaCalled = @ \/ env.EXA_API_KEY,
                   !.exaResolved = @ \/ ~out.threw,
                   !.faulted = @ \/ out.threw,
                   !.pc = IF rest # <<>> THEN "similar"
                          ELSE IF similarJobs # <<>> THEN "enrichSimilar"
                          ELSE "save"]
  /\ UNCHANGED <<storeVars, served, env, resp, pureVars>>

\* one turn of the loop over similarJobs: enrich, push unless the url is
\* already in allJobs
EnrichSimilar(route) ==
  /\ rq.pc = "enrichSimilar" /\ rq.route = route
  /\ \E ai \in AiOutcomes :
       LET enrichedJob ==
             enrichJobData(Head(rq.similar), Prefs(rq.location), ai)
           rest == Tail(rq.similar)
       IN rq' = [rq EXCEPT
                   !.allJobs = IF HasUrl(@, enrichedJob.url) THEN @
                               ELSE Append(@, enrichedJob),
                   !.aiCalled = @ \/ env.OPENAI_API_KEY,
                   !.similar = rest,
                   !.pc = IF rest # <<>> THEN "enrichSimilar" ELSE "save"]
  /\ UNCHANGED <<storeVars, served, env, resp, pureVars>>

\* allJobs.sort(...); await Promise.all(allJobs.map(job =>
\* prisma.job.create(...))): every write settles; one rejection rejects the
\* whole and the outer catch answers with one of rejectStatuses
SaveAll(route, final, rejectStatuses) ==
  /\ rq.pc = "save" /\ rq.route = route
  /\ \E F \in SUBSET DOMAIN final :
       LET w == createJobs(final, F, 1, jobTable, nextId, rq.searchId)
       IN /\ jobTable' = w.table
          /\ nextId' = w.nextId
          /\ IF w.failed
             THEN \E status \in (IF F # {} THEN rejectStatuses ELSE {500}) :
                    Respond([rq EXCEPT !.allJobs = final,
                                       !.writeRejected = TRUE,
                                       !.faulted = @ \/ F # {}],
                            status, FALSE, <<>>)
             ELSE Respond([rq EXCEPT !.allJobs = final], 200, TRUE, w.saved)
  /\ UNCHANGED <<searchTable, savedJobTable, served, env, pureVars>>

-----------------------------------------------------------------------------
(* Steps of the two enhanced routes, which use the simplified library.     *)

\* the scores are left as the library computed them: what a route does if
\* it forgets Math.round
keepScores(jobs) == jobs

\* score: Math.round(job.score) on every job of the list
roundScores(jobs) ==
  [i \in DOMAIN jobs |-> [jobs[i] EXCEPT !.score = MathRound(@)]]

\* the similar jobs pushed unless their url is already in allJobs
RECURSIVE addSimilar(_, _)
addSimilar(allJobs, similarJobs) ==
  IF similarJobs = <<>> THEN allJobs
  ELSE addSimilar(IF HasUrl(allJobs, Head(similarJobs).url) THEN allJobs
                  ELSE Append(allJobs, Head(similarJobs)),
                  Tail(similarJobs))

\* enhancedJobs = await enhancedJobSearch(query, preferences, numResults) in
\* its own try: a rejected provider call ends the request with status 500
EnhancedSearch(route) ==
  /\ rq.pc = "retrieve" /\ rq.route = route
  /\ \E out \in ExaOutcomes(rq.numResults) :
       IF out.threw
       THEN Respond([rq EXCEPT !.exaCalled = TRUE, !.faulted = TRUE],
                    500, FALSE, <<>>)
       ELSE LET enhancedJobs ==
                  enhancedJobSearch(rq.query, Prefs(rq.location),
                                    rq.numResults, out.results)
                top == IF rq.findSimilar THEN topJobs(enhancedJobs) ELSE <<>>
            IN /\ rq' = [rq EXCEPT
                           !.jobs = enhancedJobs,
                           !.allJobs = enhancedJobs,
                           !.top = top,
                           !.exaCalled = TRUE,
                           !.exaResolved = TRUE,
                           !.pc = IF route = "enhanced" THEN "createSearch"
                                  ELSE IF top # <<>> THEN "similar"
                                  ELSE "save"]
               /\ resp' = resp
  /\ UNCHANGED <<storeVars, served, env, pureVars>>

\* enhanced/route.ts: prisma.search.create in its own try; on a rejection
\* the handler goes on with search = { id: 'temp-id' }
EnhancedCreateSearch ==
  /\ rq.pc = "createSearch" /\ rq.route = "enhanced"
  /\ \E failed \in BOOLEAN :
       IF searchCreateRejects(rq.query, failed)
       THEN /\ rq' = [rq EXCEPT !.searchId = -1, !.faulted = TRUE,
                                !.pc = "save"]
            /\ UNCHANGED storeVars
       ELSE /\ searchTable' =
                 searchTable \cup {[id |-> nextId + 1, query |-> rq.query]}
            /\ nextId' = nextId + 1
            /\ rq' = [rq EXCEPT !.searchId = nextId + 1, !.pc = "save"]
            /\ UNCHANGED <<jobTable, savedJobTable>>
  /\ UNCHANGED <<served, env, resp, pureVars>>

\* enhanced/route.ts: the loop that saves the jobs one by one, each write in
\* its own try; a rejected write puts an in-memory stand-in in savedJobs
EnhancedSave ==
  /\ rq.pc = "save" /\ rq.route = "enhanced"
  /\ \E F \in SUBSET DOMAIN rq.allJobs :
       LET w == createJobs(roundScores(rq.allJobs), F, 1, jobTable, nextId,
                           rq.searchId)
       IN /\ jobTable' = w.table
          /\ nextId' = w.nextId
          /\ Respond([rq EXCEPT !.writeRejected = w.failed,
                                 !.faulted = @ \/ F # {}],
                     200, TRUE, w.saved)
  /\ UNCHANGED <<searchTable, savedJobTable, served, env, pureVars>>

\* route-backup.ts: the Search row is written first; a rejection goes to the
\* outer catch, which answers 429 when the message holds 'rate limit'
BackupCreateSearch ==
  /\ rq.pc = "createSearch" /\ rq.route = "backup"
  /\ \E failed \in BOOLEAN :
       IF searchCreateRejects(rq.query, failed)
       THEN /\ \E status \in {500, 429} :
                 Respond([rq EXCEPT !.faulted = TRUE], status, FALSE, <<>>)
            /\ UNCHANGED storeVars
       ELSE /\ searchTable' =
                 searchTable \cup {[id |-> nextId + 1, query |-> rq.query]}
            /\ nextId' = nextId + 1
            /\ rq' = [rq EXCEPT !.searchId = nextId + 1, !.pc = "retrieve"]
            /\ UNCHANGED <<jobTable, savedJobTable, resp>>
  /\ UNCHANGED <<served, env, pureVars>>

\* route-backup.ts: findSimilarJobsEnhanced(job.url, preferences, 5) for one
\* of the top jobs; after the last, the new ones are pushed to allJobs
BackupFindSimilar ==
  /\ rq.pc = "similar" /\ rq.route = "backup"
  /\ \E out \in ExaOutcomes(5) :
       LET similarJobs ==
             rq.similar \o findSimilarJobsEnhanced(Head(rq.top).url,
                                                   Prefs(rq.location), 5, out)
           rest == Tail(rq.top)
       IN rq' = [rq EXCEPT
                   !.top = rest,
                   !.exaResolved = @ \/ ~out.threw,
                   !.faulted = @ \/ out.threw,
                   !.similar = IF rest # <<>> THEN similarJobs ELSE <<>>,
                   !.allJobs = IF rest # <<>> THEN @
                               ELSE addSimilar(@, similarJobs),
                   !.pc = IF rest # <<>> THEN "similar" ELSE "save"]
  /\ UNCHANGED <<storeVars, served, env, resp, pureVars>>

\* route-backup.ts: allJobs.sort(...); finalJobs = allJobs.slice(0, numResults)
finalJobs(allJobs, numResults) == Slice(SortByScore(allJobs), numResults)

-----------------------------------------------------------------------------
(* The four POST /search handlers, step by step, and DELETE /jobs.  One    *)
(* request is handled at a time.                                           *)

\* src/app/api/search/route.ts: no check of the environment or the query.
\* Of the preferences it only uses location etc. in prompts and in the
\* Search row, which the model does not keep, so location is left out.
StandardReceive ==
  \E query \in Queries, numResults \in NumResultsInputs,
     findSimilar \in FindSimilarInputs :
    Receive("standard", query, "", numResults, findSimilar, FALSE, "retrieve")

StandardSearchJobs ==
  /\ rq.pc = "retrieve"
  /\ SearchJobs("standard", rq.query)

StandardCreateSearch == CreateSearch("standard")

StandardEnrichJob == EnrichJob("standard")

StandardFindSimilar == FindSimilar("standard")

StandardEnrichSimilar == EnrichSimilar("standard")

StandardSave ==
  /\ rq.pc = "save"
  /\ SaveAll("standard", SortByScore(rq.allJobs), {500})

\* part_003: the hardened version of the standard route
HardenedReceive ==
  \E query \in Queries, location \in Locations,
     numResults \in NumResultsInputs, findSimilar \in FindSimilarInputs :
    Receive("hardened", query, location, numResults, findSimilar, TRUE,
            "retrieve")

HardenedSearchJobs ==
  /\ rq.pc = "retrieve"
  /\ SearchJobs("hardened", buildSearchQuery(rq.query, rq.location))

HardenedCreateSearch == CreateSearch("hardened")

HardenedEnrichJob == EnrichJob("hardened")

HardenedFindSimilar == FindSimilar("hardened")

HardenedEnrichSimilar == EnrichSimilar("hardened")

HardenedSave ==
  /\ rq.pc = "save"
  /\ SaveAll("hardened", SortByScore(rq.allJobs), {500, 429})

\* src/app/api/search/enhanced/route.ts; findSimilar is read but never used
EnhancedReceive ==
  \E query \in Queries, location \in Locations,
     numResults \in NumResultsInputs :
    Receive("enhanced", query, location, numResults, "omitted", TRUE,
            "retrieve")

EnhancedEnhancedSearch == EnhancedSearch("enhanced")

\* src/app/api/search/enhanced/route-backup.ts
BackupReceive ==
  \E query \in Queries, location \in Locations,
     numResults \in NumResultsInputs, findSimilar \in FindSimilarInputs :
    Receive("backup", query, location, numResults, findSimilar, TRUE,
            "createSearch")

BackupEnhancedSearch == EnhancedSearch("backup")

BackupSave ==
  /\ rq.pc = "save"
  /\ SaveAll("backup",
             roundScores(finalJobs(rq.allJobs, rq.numResults)), {500, 429})

\* part_006 DELETE /jobs: prisma.search.delete({where: {id: searchId}});
\* the schema's onDelete: Cascade removes the search's jobs and their saved
\* entries.  searchId 0 stands for a body without the field.
\* what the store would keep without onDelete: Cascade on SavedJob.job
orphanSavedJobs(table, gone) == table

\* schema: SavedJob.job @relation(..., onDelete: Cascade): the SavedJob rows
\* left when the Job rows gone are deleted
cascadeSavedJobs(table, gone) ==
  {s \in table : s.jobId \notin {j.id : j \in gone}}

JobsDelete ==
  /\ rq.pc = "idle"
  /\ \E searchId \in {0} \cup SearchIds \cup {nextId + 1}, failed \in BOOLEAN :
       IF searchId = 0
       THEN /\ resp' = [route |-> "jobs", status |-> 400]
            /\ UNCHANGED storeVars
       ELSE IF ~env.DATABASE_URL \/ failed \/ searchId \notin SearchIds
       THEN /\ resp' = [route |-> "jobs", status |-> 500]
            /\ UNCHANGED storeVars
       ELSE LET gone == {j \in jobTable : j.searchId = searchId}
            IN /\ searchTable' = {s \in searchTable : s.id # searchId}
               /\ jobTable' = jobTable \ gone
               /\ savedJobTable' = cascadeSavedJobs(savedJobTable, gone)
               /\ nextId' = nextId
               /\ resp' = [route |-> "jobs", status |-> 200]
  /\ UNCHANGED <<served, env, rq, pureVars>>

PureIdle == fn = "none" /\ arg = <<>> /\ ret = Pending

Init ==
  /\ searchTable = {} /\ jobTable = {} /\ savedJobTable = {}
  /\ nextId = 0 /\ served = 0
  /\ env \in [{"EXA_API_KEY", "OPENAI_API_KEY", "DATABASE_URL"} -> BOOLEAN]
  /\ rq = IdleRequest /\ resp = NoResponse
  /\ PureIdle

Next ==
  \/ StandardReceive \/ StandardSearchJobs \/ StandardCreateSearch
  \/ StandardEnrichJob \/ StandardFindSimilar \/ StandardEnrichSimilar
  \/ StandardSave
  \/ HardenedReceive \/ HardenedSearchJobs \/ HardenedCreateSearch
  \/ HardenedEnrichJob \/ HardenedFindSimilar \/ HardenedEnrichSimilar
  \/ HardenedSave
  \/ EnhancedReceive \/ EnhancedEnhancedSearch \/ EnhancedCreateSearch
  \/ EnhancedSave
  \/ BackupReceive \/ BackupCreateSearch \/ BackupEnhancedSearch
  \/ BackupFindSimilar \/ BackupSave
  \/ JobsDelete

Spec == Init /\ [][Next]_vars

-----------------------------------------------------------------------------
(* Claims about the search routes, checked under Spec.                     *)

\* resp is the response of a POST /search handler
SearchResponded == resp.route \in Routes

\* the urls of the request's results: retrieved, or scored and ready to save
resultUrls(r) ==
  {r.jobs[i].url : i \in DOMAIN r.jobs}
  \cup {r.allJobs[i].url : i \in DOMAIN r.allJobs}

\* C3 (as written): when every retrieval call made for a POST /search
\* request throws, the response is 500 without a jobs field, never a 200
\* with an empty jobs list.
C3_AllRetrievalThrowsGives500 ==
  (SearchResponded /\ resp.rq.exaCalled /\ ~resp.rq.exaResolved) =>
    resp.status = 500 /\ ~resp.hasJobs

\* C3: what the standard routes do instead.  Both strategies of
\* searchJobsByQuery threw, the errors were swallowed, and the route wrote a
\* Search row and answered 200 with an empty jobs list.
C3_EmptyListAfterFailure ==
  /\ SearchResponded /\ resp.route \in {"standard", "hardened"}
  /\ resp.rq.exaCalled /\ ~resp.rq.exaResolved
  /\ resp.status = 200 /\ resp.hasJobs /\ resp.jobs = <<>>
  /\ \E s \in searchTable : s.id = resp.searchId /\ s \notin resp.rq.priorSearches

\* C4 (as written): a POST /search that ends with status 400, 429 or 500
\* leaves no Search row and no Job row created by that request.
C4_ErrorLeavesNoRows ==
  (SearchResponded /\ resp.status \in {400, 429, 500}) =>
    /\ searchTable \subseteq resp.rq.priorSearches
    /\ jobTable \subseteq resp.rq.priorJobs

\* C4: what happens instead.  One of several concurrent Job writes was
\* rejected, the response is an error, and the Search row is left with only
\* part of its jobs.
C4_PartialRowsAfterError ==
  /\ SearchResponded /\ resp.status = 500
  /\ \E s \in searchTable \ resp.rq.priorSearches :
       /\ \E j \in jobTable : j.searchId = s.id
       /\ \E i \in DOMAIN resp.rq.allJobs :
            \A j \in jobTable : j.searchId = s.id =>
              j.url # resp.rq.allJobs[i].url

\* C5 (as written): with every environment variable set, a POST /search
\* whose query is missing, empty or only whitespace is answered 400, calls
\* neither provider and creates no Search row, in every route.
C5_BlankQueryRejected ==
  (SearchResponded /\ env = AllSet /\ queryIsBlank(resp.rq.query)) =>
    /\ resp.status = 400
    /\ ~resp.rq.exaCalled /\ ~resp.rq.aiCalled
    /\ searchTable \subseteq resp.rq.priorSearches

\* C5: what the standard route does instead with a whitespace query: it
\* calls the search provider, writes a Search row and answers 200.
C5_BlankQuerySearched ==
  /\ SearchResponded /\ resp.route = "standard" /\ resp.rq.query = "   "
  /\ resp.status = 200 /\ resp.rq.exaCalled
  /\ \E s \in searchTable \ resp.rq.priorSearches : s.query = "   "

\* C6: every Job row of the store and every job of a 200 search response
\* has an integer score in [1,10], also when enrichment or scoring failed
\* and the job kept its fallback score.
C6_StoredScoresIntegerInRange ==
  /\ \A j \in jobTable : IsInteger(j.score) /\ InRange(j.score)
  /\ (SearchResponded /\ resp.status = 200) =>
       \A i \in DOMAIN resp.jobs :
         IsInteger(resp.jobs[i].score) /\ InRange(resp.jobs[i].score)

\* C6 witness: the enhanced route answered 200 with a stored job whose score
\* 9.5 it rounded to 10, and the store also holds a job whose enrichment
\* failed (no company) with its fallback score.
C6_Witness ==
  /\ SearchResponded /\ resp.route = "enhanced" /\ resp.status = 200
  /\ \E i \in DOMAIN resp.jobs :
       /\ resp.rq.allJobs[i].score = 950
       /\ resp.jobs[i].score = 1000
       /\ resp.jobs[i] \in jobTable
  /\ \E j \in jobTable : j.company = "" /\ j.score = 500

\* C7: the jobs list of every 200 response of POST /search is in
\* non-increasing order of the returned scores.
C7_JobsSortedByScore ==
  (SearchResponded /\ resp.status = 200) =>
    \A i, j \in DOMAIN resp.jobs :
      i < j => resp.jobs[i].score >= resp.jobs[j].score

\* C7 witness: a 200 response of the standard route with two jobs of
\* different scores, the first of them a similar job appended after the
\* retrieved one.
C7_Witness ==
  /\ SearchResponded /\ resp.route = "standard" /\ resp.status = 200
  /\ Len(resp.rq.jobs) = 1 /\ Len(resp.jobs) = 2
  /\ resp.jobs[1].score > resp.jobs[2].score
  /\ resp.jobs[2].url = resp.rq.jobs[1].url

\* C8 (as written): when no provider call and no database engine failure
\* disturbs it, a POST /search whose results include the url of a Job row
\* stored by an earlier search succeeds and creates a new Job row for that
\* url, owned by the new Search row; the earlier rows are unchanged.
C8_ReSearchCreatesNewRow ==
  (/\ SearchResponded /\ ~resp.rq.faulted
   /\ \E p \in resp.rq.priorJobs : p.url \in resultUrls(resp.rq)) =>
    /\ resp.status = 200
    /\ resp.rq.priorJobs \subseteq jobTable
    /\ \A p \in resp.rq.priorJobs :
         p.url \in resultUrls(resp.rq) =>
           \E j \in jobTable :
             j.url = p.url /\ j.id # p.id /\ j.searchId = resp.searchId

\* C8: what the standard route does instead.  The write for the known url
\* is rejected by the unique index on Job.url and the whole search fails
\* with status 500, although nothing else went wrong.
C8_ReSearchFails ==
  /\ SearchResponded /\ resp.route = "standard" /\ ~resp.rq.faulted
  /\ \E p \in resp.rq.priorJobs : p.url \in resultUrls(resp.rq)
  /\ resp.rq.writeRejected
  /\ resp.status = 500

\* C9: no two Job rows of the store have the same url.
C9_UrlUnique ==
  \A a, b \in jobTable : a.url = b.url => a = b

\* C9 witness: a search tried to write a Job row for a url that an earlier
\* search had stored; the write was rejected, the earlier row is the only
\* one for the url, and the enhanced route answered 200 all the same.
C9_Witness ==
  /\ SearchResponded /\ resp.route = "enhanced" /\ resp.status = 200
  /\ ~resp.rq.faulted /\ resp.rq.writeRejected
  /\ \E p \in resp.rq.priorJobs :
       /\ HasUrl(resp.rq.allJobs, p.url)
       /\ p \in jobTable
       /\ Cardinality({j \in jobTable : j.url = p.url}) = 1

\* C10 (as written): when the write of a Job row is rejected during a POST
\* /search, the response is still 200 and its jobs list holds every scored
\* candidate of the request, in every route.
C10_RejectedWriteStill200 ==
  (SearchResponded /\ resp.rq.writeRejected) =>
    /\ resp.status = 200
    /\ Len(resp.jobs) = Len(resp.rq.allJobs)
    /\ \A i \in DOMAIN resp.jobs : resp.jobs[i].url = resp.rq.allJobs[i].url

\* C10: what the routes that save with Promise.all do instead.  One of two
\* writes was rejected, the other row was stored, and the response is an
\* error without a jobs list.
C10_RejectedWriteFailsAll ==
  /\ SearchResponded /\ resp.route \in {"standard", "hardened", "backup"}
  /\ resp.rq.writeRejected
  /\ Len(resp.rq.allJobs) = 2
  /\ \E j \in jobTable : j.searchId = resp.searchId
  /\ resp.status \in {429, 500} /\ ~resp.hasJobs

-----------------------------------------------------------------------------
(* SpecDedup: the two deduplications applied to generated lists of jobs,   *)
(* and then again to their own output.                                     *)

\* enhanced-job-search.ts deduplicateJobs: the loop over jobs[i..], with the
\* keys seen so far
RECURSIVE uniqueFrom(_, _, _)
uniqueFrom(jobs, i, seen) ==
  IF i > Len(jobs) THEN <<>>
  ELSE LET job == jobs[i]
           urlKey == toLowerCase(job.url)
           titleCompanyKey ==
             toLowerCase(job.title) \o "-" \o toLowerCase(job.company)
       IN IF urlKey \notin seen /\ titleCompanyKey \notin seen
          THEN <<job>> \o uniqueFrom(jobs, i + 1,
                                     seen \cup {urlKey, titleCompanyKey})
          ELSE uniqueFrom(jobs, i + 1, seen)

Reverse(s) == [i \in DOMAIN s |-> s[Len(s) + 1 - i]]

\* a plausible slip: unique.unshift(job) in place of unique.push(job)
deduplicateJobsUnshift(jobs) == Reverse(uniqueFrom(jobs, 1, {}))

\* enhanced-job-search.ts deduplicateJobs
deduplicateJobs(jobs) == uniqueFrom(jobs, 1, {})

DedupUrls ==
  {"https://jobs.lever.co/acme/1", "HTTPS://JOBS.LEVER.CO/ACME/1",
   "https://jobs.lever.co/acme/2", "dev-acme"}
DedupTitles == {"Dev", "DEV", "Dev-Ops"}
DedupCompanies == {"Acme", "Ops-Acme"}

DedupJobs ==
  {[url |-> u, title |-> t, company |-> c, score |-> 500] :
     <<u, t, c>> \in DedupUrls \X DedupTitles \X DedupCompanies}

InitDedup ==
  /\ RoutesIdle
  /\ ret = Pending
  /\ fn \in {"deduplicateJobs", "uniqueResults"}
  /\ arg \in {[jobs |-> L] : L \in SeqsUpTo(DedupJobs, MaxJobs)}

\* deduplicateJobs(jobs), and deduplicateJobs of that
ApplyDeduplicateJobs ==
  /\ fn = "deduplicateJobs"
  /\ Apply("deduplicateJobs",
           [once |-> deduplicateJobs(arg.jobs),
            twice |-> deduplicateJobs(deduplicateJobs(arg.jobs))])

\* the URL filter of searchJobsByQuery, and the filter of its output
ApplyUniqueResults ==
  /\ fn = "uniqueResults"
  /\ Apply("uniqueResults",
           [once |-> uniqueResults(arg.jobs),
            twice |-> uniqueResults(uniqueResults(arg.jobs))])

NextDedup == ApplyDeduplicateJobs \/ ApplyUniqueResults

SpecDedup == InitDedup /\ [][NextDedup]_vars

\* C11: deduplicating the output of a deduplication gives the same jobs in
\* the same order, for deduplicateJobs and for the URL filter of
\* searchJobsByQuery.
C11_DedupIdempotent ==
  ret.done => ret.val.twice = ret.val.once

\* C11 witness: deduplicateJobs dropped a job of a three-job list (by its
\* lower-cased url or its title-company key), kept two, and was applied to
\* its output.
C11_Witness ==
  /\ ret.done /\ fn = "deduplicateJobs"
  /\ Len(arg.jobs) = 3 /\ Len(ret.val.once) = 2
  /\ arg.jobs[1].url # arg.jobs[3].url
  /\ ret.val.once = <<arg.jobs[1], arg.jobs[3]>>

-----------------------------------------------------------------------------
(* SpecInsights: getRemoteInsights of the two enhanced routes applied to   *)
(* generated lists of jobs.                                                *)

\* the lower-cased strings of the generated jobs that contain the word
Containing(word) ==
  CASE word = "remote" ->
         {"remote", "remote / hybrid", "we support remote work"}
    [] word = "hybrid" -> {"hybrid", "remote / hybrid"}
    [] word = "remote work" -> {"we support remote work"}
    [] OTHER -> {}

\* s?.toLowerCase().includes(word)
lowerIncludes(s, word) ==
  s # Undefined /\ toLowerCase(s) \in Containing(word)

\* Math.round((part / total) * 100)
percentage(part, total) ==
  IF total = 0 THEN NaN ELSE Num((200 * part + total) \div (2 * total))

isRemote(job) == lowerIncludes(job.location, "remote")
isHybrid(job) == lowerIncludes(job.location, "hybrid")

\* a plausible slip: onSite counted by its own filter
getRemoteInsightsFiltered(jobs) ==
  LET neither(job) == ~isRemote(job) /\ ~isHybrid(job)
  IN [fullyRemote |-> CountTrue([i \in DOMAIN jobs |-> isRemote(jobs[i])]),
      hybrid |-> CountTrue([i \in DOMAIN jobs |-> isHybrid(jobs[i])]),
      onSite |-> CountTrue([i \in DOMAIN jobs |-> neither(jobs[i])]),
      remotePercentage |->
        IF Len(jobs) > 0
        THEN percentage(CountTrue([i \in DOMAIN jobs |-> isRemote(jobs[i])]), Len(jobs)) ELSE Num(0)]

\* enhanced/route.ts getRemoteInsights
getRemoteInsights(jobs) ==
  LET remoteJobs == CountTrue([i \in DOMAIN jobs |-> isRemote(jobs[i])])
      hybridJobs == CountTrue([i \in DOMAIN jobs |-> isHybrid(jobs[i])])
  IN [fullyRemote |-> remoteJobs,
      hybrid |-> hybridJobs,
      onSite |-> Len(jobs) - remoteJobs - hybridJobs,
      remotePercentage |->
        IF Len(jobs) > 0 THEN percentage(remoteJobs, Len(jobs)) ELSE Num(0)]

\* enhanced/route-backup.ts getRemoteInsights
getRemoteInsightsBackup(jobs) ==
  LET remote(job) ==
        \/ lowerIncludes(job.location, "remote")
        \/ lowerIncludes(job.remotePolicy, "remote")
        \/ lowerIncludes(job.content, "remote work")
      hybrid(job) ==
        \/ lowerIncludes(job.location, "hybrid")
        \/ lowerIncludes(job.remotePolicy, "hybrid")
      remoteJobs == CountTrue([i \in DOMAIN jobs |-> remote(jobs[i])])
      hybridJobs == CountTrue([i \in DOMAIN jobs |-> hybrid(jobs[i])])
  IN [fullyRemote |-> remoteJobs,
      hybrid |-> hybridJobs,
      onSite |-> Len(jobs) - remoteJobs - hybridJobs,
      remotePercentage |-> percentage(remoteJobs, Len(jobs))]

InsightLocations == {Undefined, "Remote", "Hybrid", "Remote / Hybrid", "Austin"}
InsightPolicies == {Undefined, "Hybrid"}
InsightContents == {Undefined, "We support Remote Work"}

InsightJobs ==
  {[location |-> l, remotePolicy |-> p, content |-> c] :
     <<l, p, c>> \in InsightLocations \X InsightPolicies \X InsightContents}

InitInsights ==
  /\ RoutesIdle
  /\ ret = Pending
  /\ fn \in {"getRemoteInsights", "getRemoteInsightsBackup"}
  /\ arg \in {[jobs |-> L] : L \in SeqsUpTo(InsightJobs, MaxJobs)}

ApplyGetRemoteInsights ==
  /\ fn = "getRemoteInsights"
  /\ Apply("getRemoteInsights", getRemoteInsights(arg.jobs))

ApplyGetRemoteInsightsBackup ==
  /\ fn = "getRemoteInsightsBackup"
  /\ Apply("getRemoteInsightsBackup", getRemoteInsightsBackup(arg.jobs))

NextInsights == ApplyGetRemoteInsights \/ ApplyGetRemoteInsightsBackup

SpecInsights == InitInsights /\ [][NextInsights]_vars

\* C12: the fullyRemote, hybrid and onSite counts of getRemoteInsights sum
\* to the number of jobs in the list, for every list of jobs.
C12_InsightCountsSumToTotal ==
  ret.done =>
    ret.val.fullyRemote + ret.val.hybrid + ret.val.onSite = Len(arg.jobs)

\* C12 witness: a list with a job that is both remote and hybrid, a job that
\* is neither, and a job with no location was counted.
C12_Witness ==
  /\ ret.done /\ fn = "getRemoteInsights"
  /\ \E i, j, k \in DOMAIN arg.jobs :
       /\ arg.jobs[i].location = "Remote / Hybrid"
       /\ arg.jobs[j].location = "Austin"
       /\ arg.jobs[k].location = Undefined
  /\ ret.val.fullyRemote >= 1 /\ ret.val.hybrid >= 1

-----------------------------------------------------------------------------
(* SpecQuery: the provider query strings built from a query and the        *)
(* preferences. A string is the sequence of its pieces: the characters of  *)
(* the query, and the literal fragments of the templates.                  *)

\* String.prototype.includes on sequences of pieces
includes(s, q) ==
  \E i \in 1..(Len(s) - Len(q) + 1) : SubSeq(s, i, i + Len(q) - 1) = q

\* String.prototype.split(sep): the pieces between separators
RECURSIVE split(_, _, _)
split(s, sep, current) ==
  IF s = <<>> THEN <<current>>
  ELSE IF Head(s) = sep THEN <<current>> \o split(Tail(s), sep, <<>>)
  ELSE split(Tail(s), sep, Append(current, Head(s)))

\* Array.prototype.join(sep)
RECURSIVE join(_, _)
join(parts, sep) ==
  IF parts = <<>> THEN <<>>
  ELSE IF Len(parts) = 1 THEN parts[1]
  ELSE parts[1] \o <<sep>> \o join(Tail(parts), sep)

\* preferences.jobType?.includes('Remote')
jobTypeIncludesRemote(preferences) ==
  preferences.jobType \in {<<"Remote">>, <<"Remote", ", ", "Full-time">>}

\* enhanced-job-search.ts buildJobBoardQuery
buildJobBoardQuery(query, preferences) ==
  LET q1 == query \o <<" job opening position hiring now">>
      q2 == IF preferences.location # <<>> /\ preferences.location # <<"Remote">>
            THEN q1 \o <<" in ">> \o preferences.location ELSE q1
      q3 == IF preferences.location = <<"Remote">> \/ jobTypeIncludesRemote(preferences)
            THEN q2 \o <<" remote work from home">> ELSE q2
      q4 == IF preferences.experienceLevel # <<>>
            THEN q3 \o <<" ">> \o preferences.experienceLevel ELSE q3
      techs == Slice(split(preferences.technologies, ",", <<>>), 3)
  IN IF preferences.technologies # <<>>
     THEN q4 \o <<" ">> \o join(techs, " ") ELSE q4

\* sizeTerms[preferences.companySize] || ''
sizeTerms(companySize) ==
  CASE companySize = <<"Startup">> -> <<"startup early stage">>
    [] companySize = <<"Small">> -> <<"growing company">>
    [] companySize = <<"Medium">> -> <<"established company">>
    [] companySize = <<"Large">> -> <<"enterprise corporation">>
    [] OTHER -> <<>>

\* enhanced-job-search.ts buildCompanyCareerQuery
buildCompanyCareerQuery(query, preferences) ==
  LET baseQuery == query \o <<" careers jobs opportunities team join">>
  IN IF preferences.companySize # <<>>
     THEN baseQuery \o <<" ">> \o sizeTerms(preferences.companySize)
     ELSE baseQuery

\* enhanced-job-search.ts buildKeywordQuery
buildKeywordQuery(query, preferences) ==
  LET k1 == <<"\"">> \o query \o <<"\" AND (job OR position OR hiring OR career)">>
      k2 == IF preferences.location # <<>> /\ preferences.location # <<"Remote">>
            THEN k1 \o <<" AND \"">> \o preferences.location \o <<"\"">> ELSE k1
  IN IF preferences.location = <<"Remote">>
     THEN k2 \o <<" AND (remote OR \"work from home\")">> ELSE k2

\* a plausible slip: the query trimmed before it is used
buildSimpleJobQueryTrimmed(query, preferences) ==
  Trim(query) \o <<" hiring">>

\* part_000 buildSimpleJobQuery
buildSimpleJobQuery(query, preferences) ==
  LET s1 == query \o <<" hiring">>
      s2 == IF preferences.location # <<>> /\ preferences.location # <<"Remote">>
            THEN s1 \o <<" ">> \o preferences.location ELSE s1
  IN IF preferences.location = <<"Remote">> \/ jobTypeIncludesRemote(preferences)
     THEN s2 \o <<" remote">> ELSE s2

\* job-search.ts searchJobsByQuery: the queries of the two strategies
searchQueries(query) ==
  << query \o <<" job opening hiring now apply position career opportunity">>,
     <<"\"">> \o query \o <<"\" AND (job OR position OR hiring OR career)">> >>

\* part_003 POST: searchQuery built from the body
hardenedSearchQuery(query, body) ==
  LET h1 == IF body.location # <<>>
            THEN query \o <<" in ">> \o body.location ELSE query
      h2 == IF body.jobType # <<>> THEN h1 \o <<" ">> \o body.jobType ELSE h1
      h3 == IF body.experienceLevel # <<>>
            THEN h2 \o <<" ">> \o body.experienceLevel ELSE h2
  IN IF body.technologies # <<>>
     THEN h3 \o <<" ">> \o body.technologies ELSE h3

QueryChars == {"q", " ", "\""}
QueryStrings == SeqsUpTo(QueryChars, MaxQueryLen) \ {<<>>}

QueryPreferences ==
  [location : {<<>>, <<"Remote">>, <<"Austin">>},
   jobType : {<<>>, <<"Full-time">>, <<"Remote", ", ", "Full-time">>},
   experienceLevel : {<<>>, <<"Senior">>},
   technologies : {<<>>, <<"go", ",", "sql", ",", "aws", ",", "k8s">>},
   companySize : {<<>>, <<"Startup">>, <<"Huge">>}]

QueryBuilders ==
  {"buildJobBoardQuery", "buildCompanyCareerQuery", "buildKeywordQuery",
   "buildSimpleJobQuery", "searchJobsByQuery", "hardenedSearchQuery"}

InitQuery ==
  /\ RoutesIdle
  /\ ret = Pending
  /\ fn \in QueryBuilders
  /\ arg \in [query : QueryStrings, preferences : QueryPreferences]

ApplyBuildJobBoardQuery ==
  /\ fn = "buildJobBoardQuery"
  /\ Apply("buildJobBoardQuery",
           <<buildJobBoardQuery(arg.query, arg.preferences)>>)

ApplyBuildCompanyCareerQuery ==
  /\ fn = "buildCompanyCareerQuery"
  /\ Apply("buildCompanyCareerQuery",
           <<buildCompanyCareerQuery(arg.query, arg.preferences)>>)

ApplyBuildKeywordQuery ==
  /\ fn = "buildKeywordQuery"
  /\ Apply("buildKeywordQuery",
           <<buildKeywordQuery(arg.query, arg.preferences)>>)

ApplyBuildSimpleJobQuery ==
  /\ fn = "buildSimpleJobQuery"
  /\ Apply("buildSimpleJobQuery",
           <<buildSimpleJobQuery(arg.query, arg.preferences)>>)

ApplySearchQueries ==
  /\ fn = "searchJobsByQuery"
  /\ Apply("searchJobsByQuery", searchQueries(arg.query))

ApplyHardenedSearchQuery ==
  /\ fn = "hardenedSearchQuery"
  /\ Apply("hardenedSearchQuery",
           <<hardenedSearchQuery(arg.query, arg.preferences)>>)

NextQuery ==
  \/ ApplyBuildJobBoardQuery
  \/ ApplyBuildCompanyCareerQuery
  \/ ApplyBuildKeywordQuery
  \/ ApplyBuildSimpleJobQuery
  \/ ApplySearchQueries
  \/ ApplyHardenedSearchQuery

SpecQuery == InitQuery /\ [][NextQuery]_vars

\* C13: for every non-empty query and every preference set, each provider
\* query string that is built is non-empty and contains the original query
\* as a substring.
C13_BuiltQueryContainsQuery ==
  ret.done =>
    \A i \in DOMAIN ret.val :
      ret.val[i] # <<>> /\ includes(ret.val[i], arg.query)

\* C13 witness: buildSimpleJobQuery built a query from a query that starts
\* with a space, for a remote job type and a location.
C13_Witness ==
  /\ ret.done /\ fn = "buildSimpleJobQuery"
  /\ arg.query = <<" ", "q">>
  /\ arg.preferences.location = <<"Austin">>
  /\ ret.val = << <<" ", "q", " hiring", " ", "Austin", " remote">> >>

-----------------------------------------------------------------------------
(* SpecSaved: the /saved-jobs handlers and DELETE /jobs over a store that  *)
(* earlier searches filled.  A SavedJob row is [id, jobId, notes, status,  *)
(* updatedAt]; notes = Undefined is NULL; updatedAt is the number of the   *)
(* request that wrote the row last.  candidate is a history field: the     *)
(* url, title and company the Job had when it was saved.  resp holds the   *)
(* last response with the request body (rq) and the store the request      *)
(* started from (before).                                                  *)

JobIds == {j.id : j \in jobTable}
SavedJobIds == {s.id : s \in savedJobTable}

Store == [searches |-> searchTable, jobs |-> jobTable, saved |-> savedJobTable]

\* no uniqueness check at all: what the store does without @unique on jobId
neverSaved(table, jobId) == FALSE

\* schema: jobId String @unique
jobAlreadySaved(table, jobId) == \E s \in table : s.jobId = jobId

\* Whether prisma.savedJob.create({data}) rejects: the engine cannot be
\* reached, the failure chosen for this write, the unique jobId, or the
\* foreign key to Job.
savedJobCreateRejects(table, data, failed) ==
  \/ ~env.DATABASE_URL
  \/ failed
  \/ jobAlreadySaved(table, data.jobId)
  \/ data.jobId \notin JobIds

\* include: { job: true }
withJob(s) ==
  [id |-> s.id, jobId |-> s.jobId, notes |-> s.notes, status |-> s.status,
   updatedAt |-> s.updatedAt,
   job |-> CHOOSE j \in jobTable : j.id = s.jobId]

\* orderBy: { createdAt: 'desc' }: ids grow with the time of creation
RECURSIVE newestFirst(_)
newestFirst(rows) ==
  IF rows = {} THEN <<>>
  ELSE LET newest == CHOOSE s \in rows : \A t \in rows : t.id <= s.id
       IN <<withJob(newest)>> \o newestFirst(rows \ {newest})

\* a plausible slip: GET without a status filter lists the default status
whereInterested(s, status) ==
  s.status = (IF status = Undefined THEN "interested" ELSE status)

\* const where = status ? { status } : {}
whereMatches(s, status) ==
  status \in {Undefined, ""} \/ s.status = status

\* a plausible slip: data: { notes, status } without the undefined checks
updateDataOverwrite(row, notes, status, now) ==
  [row EXCEPT !.notes = notes,
              !.status = IF status # Undefined THEN status ELSE @,
              !.updatedAt = now]

\* data: {...(notes !== undefined && { notes }),
\*        ...(status !== undefined && { status })}, and @updatedAt
updateData(row, notes, status, now) ==
  [row EXCEPT !.notes = IF notes # Undefined THEN notes ELSE @,
              !.status = IF status # Undefined THEN status ELSE @,
              !.updatedAt = now]

SavedResponse(method, status, body, request) ==
  [route |-> "saved-jobs", method |-> method, status |-> status,
   body |-> body, rq |-> request, before |-> Store]

StatusInputs == {Undefined, "applied", "maybe"}
NotesInputs == {Undefined, "call back"}

\* GET /saved-jobs
SavedJobsGet ==
  /\ rq.pc = "idle" /\ served < MaxSavedRequests
  /\ \E status \in {Undefined, "applied"}, failed \in BOOLEAN :
       LET request == [status |-> status]
       IN IF ~env.DATABASE_URL \/ failed
          THEN resp' = SavedResponse("GET", 500, <<>>, request)
          ELSE resp' = SavedResponse("GET", 200,
                 newestFirst({s \in savedJobTable : whereMatches(s, status)}),
                 request)
  /\ served' = served + 1
  /\ UNCHANGED <<storeVars, env, rq, pureVars>>

\* POST /saved-jobs
SavedJobsPost ==
  /\ rq.pc = "idle" /\ served < MaxSavedRequests
  /\ \E jobId \in {0} \cup JobIds \cup {nextId + 1},
        notes \in NotesInputs, status \in StatusInputs, failed \in BOOLEAN :
       LET request == [jobId |-> jobId, notes |-> notes, status |-> status]
           data == [jobId |-> jobId, notes |-> notes,
                    status |-> IF status = Undefined THEN "interested"
                               ELSE status]
           job == CHOOSE j \in jobTable : j.id = jobId
           row == [id |-> nextId + 1, jobId |-> data.jobId,
                   notes |-> data.notes, status |-> data.status,
                   updatedAt |-> served + 1,
                   candidate |-> [url |-> job.url, title |-> job.title,
                                  company |-> job.company]]
       IN IF jobId = 0
          THEN /\ resp' = SavedResponse("POST", 400, <<>>, request)
               /\ UNCHANGED storeVars
          ELSE IF savedJobCreateRejects(savedJobTable, data, failed)
          THEN /\ resp' = SavedResponse("POST", 500, <<>>, request)
               /\ UNCHANGED storeVars
          ELSE /\ savedJobTable' = savedJobTable \cup {row}
               /\ nextId' = nextId + 1
               /\ resp' = SavedResponse("POST", 200, <<withJob(row)>>, request)
               /\ UNCHANGED <<searchTable, jobTable>>
  /\ served' = served + 1
  /\ UNCHANGED <<env, rq, pureVars>>

\* PUT /saved-jobs
SavedJobsPut ==
  /\ rq.pc = "idle" /\ served < MaxSavedRequests
  /\ \E id \in {0} \cup SavedJobIds \cup {nextId + 1},
        notes \in NotesInputs, status \in StatusInputs, failed \in BOOLEAN :
       LET request == [id |-> id, notes |-> notes, status |-> status]
           row == CHOOSE s \in savedJobTable : s.id = id
           updated == updateData(row, notes, status, served + 1)
       IN IF id = 0
          THEN /\ resp' = SavedResponse("PUT", 400, <<>>, request)
               /\ UNCHANGED storeVars
          ELSE IF ~env.DATABASE_URL \/ failed \/ id \notin SavedJobIds
          THEN /\ resp' = SavedResponse("PUT", 500, <<>>, request)
               /\ UNCHANGED storeVars
          ELSE /\ savedJobTable' = (savedJobTable \ {row}) \cup {updated}
               /\ resp' = SavedResponse("PUT", 200, <<withJob(updated)>>,
                                        request)
               /\ UNCHANGED <<searchTable, jobTable, nextId>>
  /\ served' = served + 1
  /\ UNCHANGED <<env, rq, pureVars>>

\* DELETE /saved-jobs
SavedJobsDelete ==
  /\ rq.pc = "idle" /\ served < MaxSavedRequests
  /\ \E id \in {0} \cup SavedJobIds \cup {nextId + 1}, failed \in BOOLEAN :
       LET request == [id |-> id]
       IN IF id = 0
          THEN /\ resp' = SavedResponse("DELETE", 400, <<>>, request)
               /\ UNCHANGED storeVars
          ELSE IF ~env.DATABASE_URL \/ failed \/ id \notin SavedJobIds
          THEN /\ resp' = SavedResponse("DELETE", 500, <<>>, request)
               /\ UNCHANGED storeVars
          ELSE /\ savedJobTable' = {s \in savedJobTable : s.id # id}
               /\ resp' = SavedResponse("DELETE", 200, <<>>, request)
               /\ UNCHANGED <<searchTable, jobTable, nextId>>
  /\ served' = served + 1
  /\ UNCHANGED <<env, rq, pureVars>>

\* the store after two searches: two postings of the first, one of the second
InitSaved ==
  /\ searchTable = {[id |-> 1, query |-> "Software Engineer"],
                    [id |-> 4, query |-> "Software Engineer in Remote"]}
  /\ jobTable =
       {[id |-> 2, url |-> Posting1.url, title |-> Posting1.title,
         company |-> "Acme", score |-> 800, searchId |-> 1],
        [id |-> 3, url |-> Posting2.url, title |-> Posting2.title,
         company |-> "", score |-> 500, searchId |-> 1],
        [id |-> 5, url |-> "https://jobs.lever.co/acme/1", title |-> "Dev",
         company |-> "Acme", score |-> 700, searchId |-> 4]}
  /\ savedJobTable = {}
  /\ nextId = 5 /\ served = 0
  /\ env = AllSet /\ rq = IdleRequest /\ resp = NoResponse
  /\ PureIdle

NextSaved ==
  \/ SavedJobsGet \/ SavedJobsPost \/ SavedJobsPut \/ SavedJobsDelete
  \/ JobsDelete

SpecSaved == InitSaved /\ [][NextSaved]_vars

SavedResponded(method) == resp.route = "saved-jobs" /\ resp.method = method

\* C14: while a SavedJob is stored, every GET /saved-jobs without a status
\* filter that succeeds lists it, with an embedded job that has the url,
\* title and company the candidate had when it was saved.
C14_SavedJobRoundTrip ==
  (SavedResponded("GET") /\ resp.status = 200 /\ resp.rq.status = Undefined)
    => \A s \in savedJobTable :
         \E i \in DOMAIN resp.body :
           /\ resp.body[i].id = s.id
           /\ resp.body[i].job.url = s.candidate.url
           /\ resp.body[i].job.title = s.candidate.title
           /\ resp.body[i].job.company = s.candidate.company

\* C14 witness: a job saved with status applied, another job saved later, and
\* a GET without a filter that listed both, the newer first.
C14_Witness ==
  /\ SavedResponded("GET") /\ resp.status = 200 /\ resp.rq.status = Undefined
  /\ Len(resp.body) = 2
  /\ resp.body[2].status = "applied"
  /\ resp.body[1].id > resp.body[2].id
  /\ resp.body[2].job.url = Posting1.url


\* C15: a PUT /saved-jobs with an id and a status and no notes changes only
\* the status and updatedAt of the SavedJob with that id: its notes and
\* jobId, every other SavedJob, and every Job and Search row are unchanged.
C15_PutStatusOnlyChangesStatus ==
  (/\ SavedResponded("PUT") /\ resp.rq.id # 0
   /\ resp.rq.notes = Undefined /\ resp.rq.status # Undefined)
    => /\ searchTable = resp.before.searches
       /\ jobTable = resp.before.jobs
       /\ Cardinality(savedJobTable) = Cardinality(resp.before.saved)
       /\ \A s \in resp.before.saved :
            IF s.id = resp.rq.id
            THEN \E t \in savedJobTable :
                   /\ t = [s EXCEPT !.status = t.status,
                                    !.updatedAt = t.updatedAt]
                   /\ resp.status = 200 => t.status = resp.rq.status
            ELSE s \in savedJobTable

\* C15 witness: a SavedJob with notes and status interested was moved to
\* applied by a PUT without notes, next to another SavedJob.
C15_Witness ==
  /\ SavedResponded("PUT") /\ resp.status = 200
  /\ resp.rq.notes = Undefined /\ resp.rq.status = "applied"
  /\ Cardinality(savedJobTable) = 2
  /\ \E s \in resp.before.saved :
       /\ s.id = resp.rq.id /\ s.notes = "call back"
       /\ s.status = "interested"

\* schema comment: interested, applied, interviewing, rejected, offer
SavedJobStatuses ==
  {"interested", "applied", "interviewing", "rejected", "offer"}

\* C16: after any sequence of POST and PUT /saved-jobs requests with any
\* status values, the status of every stored SavedJob is one of interested,
\* applied, interviewing, rejected, offer.
C16_StatusInEnumeration ==
  \A s \in savedJobTable : s.status \in SavedJobStatuses

\* C16: a POST /saved-jobs with a status outside the enumeration answered
\* 200 and the SavedJob is stored with that status.
C16_StatusOutsideEnumeration ==
  /\ SavedResponded("POST") /\ resp.status = 200
  /\ resp.rq.status = "maybe"
  /\ \E s \in savedJobTable : s.status = "maybe"

\* C17: each Job has at most one SavedJob and every SavedJob references an
\* existing Job; a POST /saved-jobs for a job that is already saved, or for a
\* jobId that does not exist, answers with an error and leaves the store
\* unchanged.
C17_OneSavedJobPerJob ==
  /\ \A s, t \in savedJobTable : s.jobId = t.jobId => s = t
  /\ \A s \in savedJobTable : s.jobId \in JobIds
  /\ (/\ SavedResponded("POST") /\ resp.rq.jobId # 0
      /\ \/ \E s \in resp.before.saved : s.jobId = resp.rq.jobId
         \/ resp.rq.jobId \notin {j.id : j \in resp.before.jobs})
       => resp.status >= 400 /\ Store = resp.before

\* C17 witness: a POST /saved-jobs for a job that was already saved, while
\* the store worked, was answered 500 next to a second SavedJob.
C17_Witness ==
  /\ SavedResponded("POST") /\ resp.status = 500
  /\ \E s \in resp.before.saved : s.jobId = resp.rq.jobId
  /\ Cardinality(savedJobTable) = 2

\* C18: a DELETE /jobs that succeeds removes one Search row, the Job rows of
\* that search and the SavedJob rows of those jobs, and leaves every other
\* row unchanged; no Job ever references a missing Search.
C18_DeleteCascades ==
  /\ [](\A j \in jobTable : j.searchId \in SearchIds)
  /\ [][(resp'.route = "jobs" /\ resp'.status = 200
         /\ searchTable' # searchTable)
        => \E searchId \in SearchIds :
             LET gone == {j \in jobTable : j.searchId = searchId}
             IN /\ searchTable' = {s \in searchTable : s.id # searchId}
                /\ jobTable' = jobTable \ gone
                /\ savedJobTable' =
                     {s \in savedJobTable : \A j \in gone : s.jobId # j.id}
                /\ \A s \in savedJobTable' : s.jobId \in {j.id : j \in jobTable'}
       ]_vars

\* C18 witness: all three jobs were saved and DELETE /jobs of the first
\* search removed its two jobs and their SavedJobs; the third SavedJob stays.
C18_Witness ==
  /\ resp.route = "jobs" /\ resp.status = 200
  /\ nextId = 8
  /\ SearchIds = {4}
  /\ JobIds = {5}
  /\ Cardinality(savedJobTable) = 1
  /\ \A s \in savedJobTable : s.jobId = 5


\* C19 (as written): when EXA_API_KEY, OPENAI_API_KEY or DATABASE_URL is not
\* set, every POST /search in every route ends with a 500 response and
\* creates no Search row and no Job row.
C19_MissingVarGives500 ==
  (SearchResponded /\ missingVars # {}) =>
    /\ resp.status = 500
    /\ searchTable \subseteq resp.rq.priorSearches
    /\ jobTable \subseteq resp.rq.priorJobs

\* C19: what the standard route does instead.  Without EXA_API_KEY
\* getExaClient throws inside searchJobsByQuery, which swallows the error;
\* the route writes a Search row and answers 200 with an empty list.
C19_MissingKeyAnswered200 ==
  /\ SearchResponded /\ resp.route = "standard"
  /\ resp.rq.query = "Software Engineer"
  /\ ~env.EXA_API_KEY /\ env.DATABASE_URL
  /\ ~resp.rq.exaCalled
  /\ resp.status = 200 /\ resp.jobs = <<>>
  /\ \E s \in searchTable : s.id = resp.searchId /\ s \notin resp.rq.priorSearches


\* the heuristic score of the job handed to the scorer under test
heuristicScore ==
  IF fn = "calculateJobScore"
  THEN calculateInitialScore(arg.result, arg.query)
  ELSE calculateEnhancedScore(arg.result, Prefs(""), arg.strategyWeight)

\* the number the scorer under test reads in a reply
parsedReply(content) ==
  IF fn = "calculateJobScore" THEN parseInt(Trim(content))
  ELSE parseFloat(content)

\* C20 (as written): in calculateJobScore and calculateAIScore, when the
\* scoring call throws or its reply is empty or does not parse as a number,
\* the score is the job's heuristic score unchanged; when the reply parses,
\* the score is the parsed number clamped to [1,10].
C20_FallbackIsHeuristicScore ==
  (/\ ret.done
   /\ \/ fn = "calculateJobScore" /\ arg.scored
      \/ fn = "calculateAIScore")
    => IF \/ arg.reply.threw
          \/ arg.reply.content = <<>>
          \/ ~parsedReply(arg.reply.content).ok
       THEN ret.val = heuristicScore
       ELSE ret.val = Min(1000, Max(100, parsedReply(arg.reply.content).val))

\* C20: what calculateAIScore does instead.  The reply was empty and the
\* score is 5, whatever the heuristic score was.
C20_EmptyReplyScoresFive ==
  /\ ret.done /\ fn = "calculateAIScore"
  /\ arg.reply = Said(<<>>)
  /\ ret.val = 500
  /\ heuristicScore > 500

-----------------------------------------------------------------------------
(* Claims on the functions and handlers above.                             *)

\* the two keys of the claim: the lower-cased url, and the lower-cased title
\* with the lower-cased company
sameUrl(a, b) == toLowerCase(a.url) = toLowerCase(b.url)
sameTitleCompany(a, b) ==
  /\ toLowerCase(a.title) = toLowerCase(b.title)
  /\ toLowerCase(a.company) = toLowerCase(b.company)

\* C21 (as written): deduplicateJobs retains a job if and only if no earlier
\* retained job has the same lower-cased url or the same lower-cased (title,
\* company) pair; the output is the input restricted to the retained jobs.
C21_RetainedIffNoEarlierDuplicate ==
  (ret.done /\ fn = "deduplicateJobs") =>
    \E K \in SUBSET DOMAIN arg.jobs :
      /\ ret.val.once = KeepAt(arg.jobs, K, 1)
      /\ \A i \in DOMAIN arg.jobs :
           i \in K <=> ~\E j \in K :
                          /\ j < i
                          /\ \/ sameUrl(arg.jobs[j], arg.jobs[i])
                             \/ sameTitleCompany(arg.jobs[j], arg.jobs[i])

\* C21: what deduplicateJobs does instead.  The second job has another url,
\* another title and another company than the first, but its key
\* `${title}-${company}` is the same string, and it is dropped.
C21_DistinctJobDropped ==
  /\ ret.done /\ fn = "deduplicateJobs"
  /\ Len(arg.jobs) = 2
  /\ arg.jobs[1].title = "Dev-Ops" /\ arg.jobs[1].company = "Acme"
  /\ arg.jobs[2].title = "Dev" /\ arg.jobs[2].company = "Ops-Acme"
  /\ ~sameUrl(arg.jobs[1], arg.jobs[2])
  /\ ret.val.once = <<arg.jobs[1]>>

-----------------------------------------------------------------------------
(* SpecStrategies: the strategy loops of searchJobsByQuery and of the      *)
(* multi-strategy enhancedJobSearch, one provider call per step.  rq holds *)
(* the loop's position: calls[i] counts the retrieval calls of strategy i, *)
(* outs the outcomes of the strategies so far (NotCalled for a strategy    *)
(* the loop never reached).                                                *)

Fields ==
  {"company", "location", "salary", "experience", "jobType", "skills",
   "applyMethod", "benefits", "remotePolicy"}

\* what the extraction prompt of each field answers for the postings
Extracted ==
  [company |-> "Acme", location |-> "Remote", salary |-> "$120k",
   experience |-> "Senior", jobType |-> "Full-time", skills |-> "go, sql",
   applyMethod |-> "Email", benefits |-> "health, pto",
   remotePolicy |-> "Hybrid"]

NoneExtracted == [f \in Fields |-> ""]

\* benefits.split(',').map(b => b.trim())
splitTrim(s) ==
  CASE s = "health, pto" -> <<"health", "pto">>
    [] OTHER -> <<s>>

\* enhanced-job-search.ts enrichJobResult, given what its nine extractions
\* returned
enrichJobResult(result, preferences, strategyWeight, x) ==
  [url |-> result.url,
   title |-> OrElse(result.title, "Untitled Position"),
   company |-> OrElse(x.company, "Unknown Company"),
   location |-> OrElse(x.location, "Unknown"),
   salary |-> x.salary,
   experienceLevel |-> x.experience,
   jobType |-> x.jobType,
   skills |-> x.skills,
   score |-> calculateEnhancedScore(result, preferences, strategyWeight),
   applyMethod |-> x.applyMethod,
   benefits |-> IF x.benefits # "" THEN splitTrim(x.benefits) ELSE <<>>,
   remotePolicy |-> x.remotePolicy]

\* enhanced-job-search.ts batchEnhanceScores, given the reply to every
\* scoring prompt
batchEnhanceScores(jobs, preferences, reply) ==
  [i \in DOMAIN jobs |->
     [jobs[i] EXCEPT !.score = calculateAIScore(jobs[i], preferences, reply)]]

\* searchStrategies[i].weight, in hundredths
strategyWeight(i) == IF i = 1 THEN 40 ELSE 30

NotCalled == [threw |-> TRUE, results |-> <<>>, called |-> FALSE]

\* enhanced-job-search.ts: what one strategy adds to allResults
processedResults(query, preferences, i, out, x) ==
  IF out.threw THEN <<>>
  ELSE LET valid == SelectSeq(out.results,
                      LAMBDA r : enhancedJobValidation(r, query, preferences))
       IN [k \in DOMAIN valid |->
             enrichJobResult(valid[k], preferences, strategyWeight(i), x)]

RECURSIVE allProcessed(_, _, _, _, _)
allProcessed(query, preferences, outs, x, i) ==
  IF i > Len(outs) THEN <<>>
  ELSE processedResults(query, preferences, i, outs[i], x)
       \o allProcessed(query, preferences, outs, x, i + 1)

\* enhanced-job-search.ts enhancedJobSearch, given what its three provider
\* calls did, what the extractions returned and the reply to the scoring
\* prompts
enhancedJobSearchStrategies(query, preferences, numResults, outs, x, reply) ==
  Slice(SortByScore(
          batchEnhanceScores(
            deduplicateJobs(allProcessed(query, preferences, outs, x, 1)),
            preferences, reply)),
        numResults)

\* the strategies of the function under test
strategyCount == IF fn = "searchJobsByQuery" THEN 2 ELSE 3

\* numResults of one strategy's provider call
strategyCap(i) ==
  IF fn = "searchJobsByQuery" THEN CeilDiv(arg.numResults, 2)
  ELSE CeilDiv(arg.numResults * strategyWeight(i), 100)

\* a plausible slip: one try around the whole loop, so a throw ends it
abortOnThrow(outs, out, n) ==
  IF out.threw
  THEN Append(outs, out) \o [k \in 1..(n - Len(outs) - 1) |-> NotCalled]
  ELSE Append(outs, out)

\* for (const strategy of searchStrategies) { try { ... } catch { log } }:
\* the outcomes after one more strategy
afterStrategy(outs, out, n) == Append(outs, out)

InitStrategies ==
  /\ searchTable = {} /\ jobTable = {} /\ savedJobTable = {}
  /\ nextId = 0 /\ served = 0 /\ env = AllSet /\ resp = NoResponse
  /\ fn \in {"searchJobsByQuery", "enhancedJobSearch"}
  /\ arg \in [query : {"Software Engineer"}, numResults : 1..MaxResults,
              aiUp : BOOLEAN]
  /\ rq = [pc |-> "strategies", calls |-> [i \in 1..strategyCount |-> 0],
           outs |-> <<>>]
  /\ ret = Pending

\* one turn of the loop: the provider call of the next strategy
StrategyCall ==
  /\ rq.pc = "strategies"
  /\ Len(rq.outs) < strategyCount
  /\ \E out \in ExaOutcomes(strategyCap(Len(rq.outs) + 1)) :
       rq' = [rq EXCEPT !.calls[Len(rq.outs) + 1] = @ + 1,
                        !.outs = afterStrategy(rq.outs, out, strategyCount)]
  /\ UNCHANGED <<storeVars, served, env, resp, pureVars>>

\* after the loop: deduplicate, sort, slice, return
StrategiesReturn ==
  /\ rq.pc = "strategies"
  /\ Len(rq.outs) = strategyCount
  /\ ret' = Returned(
       IF fn = "searchJobsByQuery"
       THEN searchJobsByQuery(arg.query, arg.numResults, rq.outs[1], rq.outs[2])
       ELSE enhancedJobSearchStrategies(
              arg.query, Prefs(""), arg.numResults, rq.outs,
              IF arg.aiUp THEN Extracted ELSE NoneExtracted,
              IF arg.aiUp THEN Said(<<"8">>) ELSE Threw))
  /\ rq' = [rq EXCEPT !.pc = "done"]
  /\ UNCHANGED <<storeVars, served, env, resp, fn, arg>>

NextStrategies == StrategyCall \/ StrategiesReturn

SpecStrategies == InitStrategies /\ [][NextStrategies]_vars

\* whether the function under test accepts the document
validFor(doc) ==
  IF fn = "searchJobsByQuery" THEN isValidJobPosting(doc)
  ELSE enhancedJobValidation(doc, arg.query, Prefs(""))

\* C22: in searchJobsByQuery and the multi-strategy enhancedJobSearch, when
\* the retrieval call of a strategy throws, the remaining strategies are
\* still executed, each retrieval call is issued exactly once, and the
\* valid results of the strategies that succeeded are returned (up to
\* numResults), and nothing else.
C22_FailedStrategyDoesNotBlockOthers ==
  (rq.pc = "done" /\ ret.done) =>
    /\ \A i \in 1..strategyCount : rq.calls[i] = 1
    /\ \A i \in 1..strategyCount :
         \A k \in DOMAIN rq.outs[i].results :
           validFor(rq.outs[i].results[k]) =>
             \/ \E j \in DOMAIN ret.val :
                  ret.val[j].url = rq.outs[i].results[k].url
             \/ Len(ret.val) = arg.numResults
    /\ \A j \in DOMAIN ret.val :
         \E i \in 1..strategyCount :
           /\ ~rq.outs[i].threw
           /\ \E k \in DOMAIN rq.outs[i].results :
                rq.outs[i].results[k].url = ret.val[j].url

\* C22 witness: the first strategy of enhancedJobSearch threw, the other two
\* were still called and the posting the last one found is returned.
C22_Witness ==
  /\ rq.pc = "done" /\ ret.done /\ fn = "enhancedJobSearch"
  /\ rq.outs[1].threw /\ ~rq.outs[2].threw /\ ~rq.outs[3].threw
  /\ rq.outs[2].results = <<>> /\ rq.outs[3].results = <<Posting1>>
  /\ rq.calls = <<1, 1, 1>>
  /\ Len(ret.val) = 1 /\ ret.val[1].url = Posting1.url

-----------------------------------------------------------------------------
(* SpecEnrich: the provider calls of one candidate, one event per step.    *)
(* enrichJobData (six extractions, then calculateJobScore) and the         *)
(* enhanced pipeline (enrichJobResult's nine extractions, then             *)
(* calculateAIScore in batchEnhanceScores).  rq.calls[f] is the state of   *)
(* the extraction call of field f, rq.extracted[f] what it returned,       *)
(* rq.scoreCall the state of the scoring call.                             *)

\* the fields enrichJobData extracts
JobDataFields ==
  {"company", "location", "salary", "experience", "jobType", "skills"}

fieldsOf(name) == IF name = "enrichJobData" THEN JobDataFields ELSE Fields

\* a plausible slip: one catch around Promise.all that blanks every field
blankAllOnFailure(x, f) == [g \in DOMAIN x |-> ""]

\* catch (error) { return '' } in getOpenAIResponse and extractWithAI
emptyOnFailure(x, f) == [x EXCEPT ![f] = ""]

\* a plausible slip: the score is requested as soon as one extraction settled
anySettled(calls) == \E f \in DOMAIN calls : calls[f] \in {"resolved", "failed"}

\* await Promise.all([...]): every extraction has settled
allSettled(calls) == \A f \in DOMAIN calls : calls[f] \in {"resolved", "failed"}

\* job-search.ts enrichJobData: the enriched job before it is scored
enrichedJob(job, x) ==
  [url |-> job.url, title |-> job.title, score |-> job.score,
   company |-> x.company, location |-> x.location, salary |-> x.salary,
   experienceLevel |-> x.experience, jobType |-> x.jobType,
   skills |-> x.skills]

InitEnrich ==
  /\ searchTable = {} /\ jobTable = {} /\ savedJobTable = {}
  /\ nextId = 0 /\ served = 0 /\ resp = NoResponse
  /\ env \in {AllSet, [AllSet EXCEPT !.OPENAI_API_KEY = FALSE]}
  /\ fn \in {"enrichJobData", "enrichJobResult"}
  /\ arg = [result |-> Posting1, query |-> "Software Engineer"]
  /\ rq = [pc |-> "start",
           calls |-> [f \in fieldsOf(fn) |-> "idle"],
           extracted |-> [f \in fieldsOf(fn) |-> Undefined],
           scoreCall |-> "idle"]
  /\ ret = Pending

\* Promise.all([extract(content, 'company'), ...]): every extraction runs
\* up to its provider call; without OPENAI_API_KEY getOpenAIClient throws
\* and the extraction returns '' at once
ExtractStart ==
  /\ rq.pc = "start"
  /\ rq' = IF env.OPENAI_API_KEY
           THEN [rq EXCEPT !.pc = "extract",
                           !.calls = [f \in DOMAIN rq.calls |-> "outstanding"]]
           ELSE [rq EXCEPT !.pc = "extract",
                           !.calls = [f \in DOMAIN rq.calls |-> "failed"],
                           !.extracted = [f \in DOMAIN rq.calls |-> ""]]
  /\ UNCHANGED <<storeVars, served, env, resp, pureVars>>

\* one extraction call settles: it resolves with the field's value or rejects
ExtractSettle ==
  /\ rq.pc = "extract"
  /\ \E f \in DOMAIN rq.calls, ok \in BOOLEAN :
       /\ rq.calls[f] = "outstanding"
       /\ rq' = IF ok
                THEN [rq EXCEPT !.calls[f] = "resolved",
                                !.extracted[f] = Extracted[f]]
                ELSE [rq EXCEPT !.calls[f] = "failed",
                                !.extracted = emptyOnFailure(@, f)]
  /\ UNCHANGED <<storeVars, served, env, resp, pureVars>>

\* the scoring call: calculateJobScore after Promise.all in enrichJobData,
\* calculateAIScore in batchEnhanceScores after enrichJobResult returned;
\* without OPENAI_API_KEY the call fails at once
ScoreCall ==
  /\ rq.pc = "extract"
  /\ allSettled(rq.calls)
  /\ rq' = [rq EXCEPT !.pc = "score",
                      !.scoreCall = IF env.OPENAI_API_KEY THEN "outstanding"
                                    ELSE "failed"]
  /\ UNCHANGED <<storeVars, served, env, resp, pureVars>>

\* the scoring call settles and the candidate is returned with its score
ScoreSettle ==
  /\ rq.pc = "score"
  /\ \E reply \in IF rq.scoreCall = "failed" THEN {Threw}
                   ELSE {Threw, Said(<<"8">>)} :
       LET x == [f \in Fields |->
                   IF f \in DOMAIN rq.extracted /\ rq.extracted[f] # Undefined
                   THEN rq.extracted[f] ELSE ""]
           job == IF fn = "enrichJobData"
                  THEN enrichedJob(
                         [url |-> arg.result.url, title |-> arg.result.title,
                          score |-> calculateInitialScore(arg.result, arg.query)],
                         x)
                  ELSE enrichJobResult(arg.result, Prefs(""), 40, x)
       IN ret' = Returned(
            [job EXCEPT !.score =
               IF fn = "enrichJobData"
               THEN calculateJobScore(job, Prefs(""), reply)
               ELSE calculateAIScore(job, Prefs(""), reply)])
  /\ rq' = [rq EXCEPT !.pc = "done",
                      !.scoreCall = IF rq.scoreCall = "failed" THEN "failed"
                                    ELSE "settled"]
  /\ UNCHANGED <<storeVars, served, env, resp, fn, arg>>

NextEnrich == ExtractStart \/ ExtractSettle \/ ScoreCall \/ ScoreSettle

SpecEnrich == InitEnrich /\ [][NextEnrich]_vars

\* the candidate's field that holds the extraction of f
fieldOfJob(job, f) ==
  CASE f = "company" -> job.company
    [] f = "location" -> job.location
    [] f = "salary" -> job.salary
    [] f = "experience" -> job.experienceLevel
    [] f = "jobType" -> job.jobType
    [] f = "skills" -> job.skills
    [] f = "applyMethod" -> job.applyMethod
    [] f = "benefits" -> job.benefits
    [] f = "remotePolicy" -> job.remotePolicy

\* C23: when the text-generation call for a field of a candidate fails, the
\* field's extracted value is the empty string, the other fields keep their
\* extracted values, and the candidate is still scored and returned.
C23_FailedFieldIsEmptyOthersKept ==
  (rq.pc = "done" /\ ret.done) =>
    /\ \A f \in DOMAIN rq.calls :
         /\ rq.calls[f] = "failed" => rq.extracted[f] = ""
         /\ rq.calls[f] = "resolved" =>
              /\ rq.extracted[f] = Extracted[f]
              /\ fieldOfJob(ret.val, f) =
                   (IF f = "benefits" THEN splitTrim(Extracted[f])
                    ELSE Extracted[f])
    /\ ret.val.url = arg.result.url
    /\ InRange(ret.val.score)

\* C23 witness: in the enhanced pipeline the salary extraction failed while
\* the provider worked for the other eight fields and for the score.
C23_Witness ==
  /\ rq.pc = "done" /\ ret.done /\ fn = "enrichJobResult"
  /\ rq.calls.salary = "failed"
  /\ \A f \in Fields \ {"salary"} : rq.calls[f] = "resolved"
  /\ ret.val.salary = "" /\ ret.val.company = "Acme"
  /\ ret.val.score = 800

\* C24: the scoring call of a candidate is issued only after every
\* field-extraction call of that candidate has completed or failed to an
\* empty value, under every interleaving of the extraction calls.
C24_ScoreAfterAllExtractions ==
  rq.scoreCall # "idle" =>
    \A f \in DOMAIN rq.calls :
      /\ rq.calls[f] \in {"resolved", "failed"}
      /\ rq.extracted[f] \in {"", Extracted[f]}

\* C24 witness: the scoring call of enrichJobData is outstanding after the
\* six extractions settled, some resolved and some failed.
C24_Witness ==
  /\ fn = "enrichJobData" /\ rq.scoreCall = "outstanding"
  /\ rq.calls.company = "failed" /\ rq.calls.skills = "resolved"
  /\ rq.extracted.company = "" /\ rq.extracted.skills = "go, sql"

-----------------------------------------------------------------------------
(* SpecBatch: which candidates of one search request have calls to the     *)
(* text-generation provider outstanding.  rq.st[c] is "waiting" before the *)
(* calls of candidate c are issued, "outstanding" from then until its last *)
(* call settled, "settled" afterwards.                                     *)

MaxCandidates == 7

batchSize == 5

BatchPipelines ==
  {"standardEnrich", "hardenedEnrich", "enhancedEnrich", "batchEnhanceScores"}

BatchNumResults == {10, 15}

\* how many candidates the step can be handed: searchJobsByQuery returns at
\* most numResults jobs, a strategy of enhancedJobSearch asks the provider
\* for Math.ceil(numResults * strategy.weight) documents
candidateCap(name, numResults) ==
  IF name = "enhancedEnrich"
  THEN (numResults * strategyWeight(1) + 99) \div 100
  ELSE numResults

\* how many candidates the step starts together:
\*   route.ts          for (const job of jobs) await enrichJobData(job)
\*   hardened route    jobs.slice(i, i + batchSize), Promise.allSettled
\*   enhancedJobSearch Promise.all(results.filter(...).map(enrichJobResult))
\*   batchEnhanceScores jobs.slice(i, i + batchSize), Promise.allSettled
groupSize(name, n) ==
  CASE name = "standardEnrich" -> 1
    [] name = "hardenedEnrich" -> batchSize
    [] name = "enhancedEnrich" -> n
    [] name = "batchEnhanceScores" -> batchSize

InitBatch ==
  /\ searchTable = {} /\ jobTable = {} /\ savedJobTable = {}
  /\ nextId = 0 /\ served = 0 /\ resp = NoResponse /\ env = AllSet
  /\ fn \in BatchPipelines
  /\ \E numResults \in BatchNumResults :
       \E n \in 1..Min(MaxCandidates, candidateCap(fn, numResults)) :
         /\ arg = [numResults |-> numResults, n |-> n]
         /\ rq = [pc |-> "batch", next |-> 1,
                  st |-> [c \in 1..n |-> "waiting"]]
  /\ ret = Pending

\* the step starts its next group once the previous group has settled
BatchIssue ==
  /\ rq.pc = "batch"
  /\ rq.next <= arg.n
  /\ \A c \in 1..arg.n : rq.st[c] # "outstanding"
  /\ LET last == Min(arg.n, rq.next + groupSize(fn, arg.n) - 1)
     IN rq' = [rq EXCEPT !.next = last + 1,
                         !.st = [c \in 1..arg.n |->
                                   IF c \in rq.next..last THEN "outstanding"
                                   ELSE rq.st[c]]]
  /\ UNCHANGED <<storeVars, served, env, resp, pureVars>>

\* the last provider call of one candidate settles
CandidateSettle ==
  /\ rq.pc = "batch"
  /\ \E c \in 1..arg.n :
       /\ rq.st[c] = "outstanding"
       /\ rq' = [rq EXCEPT !.st[c] = "settled"]
  /\ UNCHANGED <<storeVars, served, env, resp, pureVars>>

\* every candidate has settled: the step returns
BatchReturn ==
  /\ rq.pc = "batch"
  /\ \A c \in 1..arg.n : rq.st[c] = "settled"
  /\ rq' = [rq EXCEPT !.pc = "done"]
  /\ ret' = Returned(arg.n)
  /\ UNCHANGED <<storeVars, served, env, resp, fn, arg>>

NextBatch == BatchIssue \/ CandidateSettle \/ BatchReturn

SpecBatch == InitBatch /\ [][NextBatch]_vars

outstandingCandidates == {c \in DOMAIN rq.st : rq.st[c] = "outstanding"}

batchOf(c) == (c - 1) \div batchSize

-----------------------------------------------------------------------------
(* SpecRecommend: generateRecommendations of the enhanced route and of its *)
(* backup, as the sequence of the types of the recommendations pushed.     *)

\* jobs.reduce((acc, j) => acc + j.score, 0) / jobs.length < 6, scores in
\* hundredths; 0 / 0 is NaN and NaN < 6 is false
avgScoreBelowSix(jobs) ==
  Len(jobs) > 0 /\ SeqSum([i \in DOMAIN jobs |-> jobs[i].score]) < 600 * Len(jobs)

\* remoteJobs.length > jobs.length * 0.3
manyRemote(jobs) ==
  10 * CountTrue([i \in DOMAIN jobs |-> isRemote(jobs[i])]) > 3 * Len(jobs)

\* preferences.location && preferences.location !== 'Remote'
wantsPlace(preferences) ==
  /\ preferences.location \notin {Undefined, ""}
  /\ preferences.location # "Remote"

\* jobs.filter(j => j.salary && j.salary !== 'Not specified').length
\*   < jobs.length * 0.5
fewSalaries(jobs) ==
  2 * CountTrue([i \in DOMAIN jobs |->
        jobs[i].salary \notin {Undefined, "", "Not specified"}]) < Len(jobs)

\* enhanced/route.ts generateRecommendations
generateRecommendations(jobs, preferences) ==
  (IF Len(jobs) > 0 /\ avgScoreBelowSix(jobs) THEN <<"query">> ELSE <<>>)
  \o (IF Len(jobs) > 0 /\ Len(jobs) < 5 THEN <<"results">> ELSE <<>>)
  \o (IF wantsPlace(preferences) /\ manyRemote(jobs)
      THEN <<"location">> ELSE <<>>)

\* enhanced/route-backup.ts generateRecommendations
generateRecommendationsBackup(jobs, preferences) ==
  (IF avgScoreBelowSix(jobs) THEN <<"query">> ELSE <<>>)
  \o (IF wantsPlace(preferences) /\ manyRemote(jobs)
      THEN <<"location">> ELSE <<>>)
  \o (IF fewSalaries(jobs) THEN <<"salary">> ELSE <<>>)

RecommendJobs ==
  {[location |-> l, score |-> s, salary |-> p] :
     <<l, s, p>> \in {Undefined, "Remote", "Austin"} \X {500, 800}
                     \X {"Not specified", "$120k"}}

RecommendPreferences ==
  {[location |-> l] : l \in {Undefined, "", "Remote", "Austin"}}

InitRecommend ==
  /\ RoutesIdle
  /\ ret = Pending
  /\ fn \in {"generateRecommendations", "generateRecommendationsBackup"}
  /\ arg \in {[jobs |-> L, preferences |-> p] :
                L \in SeqsUpTo(RecommendJobs, MaxJobs),
                p \in RecommendPreferences}

ApplyGenerateRecommendations ==
  /\ fn = "generateRecommendations"
  /\ Apply("generateRecommendations",
           generateRecommendations(arg.jobs, arg.preferences))

ApplyGenerateRecommendationsBackup ==
  /\ fn = "generateRecommendationsBackup"
  /\ Apply("generateRecommendationsBackup",
           generateRecommendationsBackup(arg.jobs, arg.preferences))

NextRecommend ==
  ApplyGenerateRecommendations \/ ApplyGenerateRecommendationsBackup

SpecRecommend == InitRecommend /\ [][NextRecommend]_vars

\* C26: generateRecommendations emits the remote-opportunities message
\* exactly when more than 30% of the jobs have a remote location and the
\* user's location preference is not Remote, the case of no location
\* preference included.
C26_RemoteMessageIffManyRemote ==
  ret.done =>
    ((\E i \in DOMAIN ret.val : ret.val[i] = "location")
       <=> (manyRemote(arg.jobs) /\ arg.preferences.location # "Remote"))

\* C26 witness: every job is remote and the user gave no location
\* preference, and the recommendations carry no remote-opportunities message.
C26_NoPreferenceNoMessage ==
  /\ ret.done /\ fn = "generateRecommendations"
  /\ arg.preferences.location = Undefined
  /\ Len(arg.jobs) = 2
  /\ \A i \in DOMAIN arg.jobs : arg.jobs[i].location = "Remote"
  /\ \A i \in DOMAIN ret.val : ret.val[i] # "location"

\* C27: in getRemoteInsights every job is counted in exactly one of
\* fullyRemote, hybrid and onSite, so each of the three counts is between 0
\* and the number of jobs, jobs whose location mentions both remote and
\* hybrid included.
C27_InsightCountsPartitionJobs ==
  (ret.done /\ fn = "getRemoteInsights") =>
    /\ ret.val.fullyRemote \in 0..Len(arg.jobs)
    /\ ret.val.hybrid \in 0..Len(arg.jobs)
    /\ ret.val.onSite \in 0..Len(arg.jobs)
    /\ ret.val.onSite =
         CountTrue([i \in DOMAIN arg.jobs |->
                      ~isRemote(arg.jobs[i]) /\ ~isHybrid(arg.jobs[i])])

\* C27 witness: the one job of the list is located "Remote / Hybrid"; it is
\* counted as fully remote and as hybrid, and onSite is -1.
C27_NegativeOnSite ==
  /\ ret.done /\ fn = "getRemoteInsights"
  /\ Len(arg.jobs) = 1 /\ arg.jobs[1].location = "Remote / Hybrid"
  /\ ret.val.fullyRemote = 1 /\ ret.val.hybrid = 1 /\ ret.val.onSite = -1

-----------------------------------------------------------------------------
(* SpecPage: the search page.  rq holds the component's state (searchMode, *)
(* isLoading, error, hasSearched, currentQuery, and results: whether jobs  *)
(* holds the list of a response), the searchMode captured by the           *)
(* handleSearch closure that is running (closure), where that invocation   *)
(* stands (pc) and the endpoints requested since the user's last           *)
(* submission (sent, the first MaxPageRequests of them).                   *)

MaxPageRequests == 3

MaxSearches == 3

Null == "<null>"

PageOutcomes == {"ok", "Search failed", "rate limit exceeded"}

PageQueries == {"", "Dev", "Remote"}

\* searchMode === 'enhanced' ? '/api/search/enhanced' : '/api/search'
endpointOf(searchMode) ==
  IF searchMode = "enhanced" THEN "/api/search/enhanced" ELSE "/api/search"

\* error.message?.includes('rate limit')
isRateLimit(message) == message = "rate limit exceeded"

\* the first lines of handleSearch, up to the fetch, run by the closure that
\* captured searchMode mode
startRequest(page, mode, sent, query) ==
  [page EXCEPT !.pc = "fetching", !.closure = mode, !.currentQuery = query,
               !.isLoading = TRUE, !.hasSearched = TRUE, !.error = Null,
               !.sent = IF Len(sent) < MaxPageRequests
                        THEN Append(sent, endpointOf(mode)) ELSE sent]

InitPage ==
  /\ searchTable = {} /\ jobTable = {} /\ savedJobTable = {}
  /\ nextId = 0 /\ served = 0 /\ resp = NoResponse /\ env = AllSet
  /\ fn = "handleSearch" /\ arg = 0 /\ ret = Pending
  /\ rq = [pc |-> "idle", searchMode |-> "enhanced", closure |-> "enhanced",
           isLoading |-> FALSE, hasSearched |-> FALSE, error |-> Null,
           currentQuery |-> "", results |-> FALSE, sent |-> <<>>]

\* the user submits the form or clicks Try Again on the error card (or the
\* page is opened with search params): handleSearch of the current render
\* runs up to its fetch
PageSearch ==
  /\ rq.pc = "idle"
  /\ arg < MaxSearches
  /\ arg' = arg + 1
  /\ \E query \in PageQueries :
       rq' = startRequest(rq, rq.searchMode, <<>>, query)
  /\ UNCHANGED <<storeVars, served, env, resp, fn, ret>>

\* the user clicks Use Standard Search on the error card, shown while
\* searchMode is 'enhanced': retryWithStandardSearch sets the state and calls
\* the handleSearch of the render the button belongs to
PageRetryStandard ==
  /\ rq.pc = "idle" /\ rq.error # Null /\ rq.searchMode = "enhanced"
  /\ arg < MaxSearches
  /\ arg' = arg + 1
  /\ rq' = IF rq.currentQuery # ""
           THEN startRequest([rq EXCEPT !.searchMode = "standard"],
                             rq.searchMode, <<>>, rq.currentQuery)
           ELSE [rq EXCEPT !.searchMode = "standard", !.error = Null]
  /\ UNCHANGED <<storeVars, served, env, resp, fn, ret>>

\* the fetch settles: handleSearch runs from the await to its end
PageResponse ==
  /\ rq.pc = "fetching"
  /\ \E outcome \in PageOutcomes :
       rq' = IF outcome = "ok"
             THEN [rq EXCEPT !.pc = "idle", !.results = TRUE,
                             !.isLoading = FALSE]
             ELSE IF rq.closure = "enhanced" /\ ~isRateLimit(outcome)
             THEN [rq EXCEPT !.pc = "timer", !.error = outcome,
                             !.results = FALSE,
                             !.searchMode = "standard", !.isLoading = FALSE]
             ELSE [rq EXCEPT !.pc = "idle", !.error = outcome,
                             !.results = FALSE, !.isLoading = FALSE]
  /\ UNCHANGED <<storeVars, served, env, resp, pureVars>>

\* setTimeout(() => handleSearch(data), 100) fires: handleSearch here is the
\* function of the render that scheduled the timer, and the searchMode it
\* reads is the one that render captured
PageTimer ==
  /\ rq.pc = "timer"
  /\ rq' = startRequest(rq, rq.closure, rq.sent, rq.currentQuery)
  /\ UNCHANGED <<storeVars, served, env, resp, pureVars>>

NextPage ==
  PageSearch \/ PageRetryStandard \/ PageResponse \/ PageTimer

SpecPage == InitPage /\ [][NextPage]_vars

\* every fetch settles and every timer fires
FairSpecPage == SpecPage /\ WF_vars(PageResponse) /\ WF_vars(PageTimer)

\* the search has ended: nothing is loading and results or an error are shown
searchEnded ==
  /\ rq.pc = "idle" /\ ~rq.isLoading
  /\ rq.error # Null \/ rq.results

\* C28: after a request to the enhanced endpoint failed with an error other
\* than a rate-limit error, the fallback issues exactly one further request,
\* to /api/search; if that fails too the page stops in the error state.  The
\* enhanced endpoint is never re-requested, and every search eventually
\* ends with isLoading false and results or an error shown.
C28_FallbackOnceToStandard ==
  /\ [](/\ Len(rq.sent) <= 2
        /\ Len(rq.sent) = 2 =>
             rq.sent = <<"/api/search/enhanced", "/api/search">>)
  /\ (rq.pc = "timer") ~> (rq.pc = "fetching" /\ rq.sent[Len(rq.sent)] = "/api/search")
  /\ (rq.pc # "idle") ~> searchEnded

\* C28 witness: the request issued by the fallback went to the enhanced
\* endpoint again, failed again, and a third request to it is under way.
C28_EnhancedRequestedAgain ==
  /\ rq.pc = "fetching"
  /\ rq.sent = <<"/api/search/enhanced", "/api/search/enhanced",
                 "/api/search/enhanced">>
  /\ rq.searchMode = "standard"

-----------------------------------------------------------------------------
(* Claims on enhancedJobValidation and on the length of the jobs list      *)

\* the exclusion phrases of enhancedJobValidation
exclusionPhrases ==
  {"company overview", "about us", "privacy policy",
   "terms of service", "news article", "press release"}

\* the title or the first 1000 characters of the text hold such a phrase
hasExclusionPhrase(result) ==
  \E pattern \in exclusionPhrases :
    \/ Includes(LowerText(result.title), pattern)
    \/ PrefixIncludes(result.text, 1000, pattern)

\* C29: enhancedJobValidation rejects every document whose title or first
\* 1000 characters of text contain one of its exclusion phrases, whatever
\* its other signals are.
C29_ExcludedDocumentRejected ==
  (ret.done /\ fn = "enhancedJobValidation" /\ hasExclusionPhrase(arg.result))
    => ret.val = FALSE

\* C29 witness: a document on a job url with a relevant title, all three
\* sections and more than 1000 characters has "privacy policy" in its first
\* 1000 characters and is accepted.
C29_ExcludedDocumentAccepted ==
  /\ ret.done /\ fn = "enhancedJobValidation"
  /\ arg.query = "Software Engineer"
  /\ arg.result.title = "Software Engineer at Acme"
  /\ PrefixIncludes(arg.result.text, 1000, "privacy policy")
  /\ validationScore(arg.result, arg.query, [location |-> ""]) = 4
  /\ ret.val = TRUE


\* C30: the jobs list of a 200 response of POST /search never has more
\* entries than the request's numResults (the route's default when omitted),
\* the jobs appended by the find-similar step included, in every route.
C30_JobsWithinNumResults ==
  (SearchResponded /\ resp.status = 200 /\ resp.hasJobs) =>
    Len(resp.jobs) <= resp.rq.numResults

\* C30 witness: the standard route answered a request with numResults 1 with
\* two jobs, the retrieved one and a similar one.
C30_SimilarJobsExceedNumResults ==
  /\ SearchResponded /\ resp.route = "standard"
  /\ resp.status = 200 /\ resp.hasJobs
  /\ resp.rq.numResults = 1 /\ resp.rq.findSimilar
  /\ Len(resp.jobs) = 2
  /\ resp.jobs[1].url # resp.jobs[2].url

=============================================================================
